---- MODULE Spec2Model ----
(***************************************************************************)
(* A model of the rust-dmx port implementations: the Enttec USB DMX Pro    *)
(* port and its message framing (src/src/enttec.rs), the legacy            *)
(* EnttecProOutPort (src/src/enttec_pro_port.rs), the Art-Net port         *)
(* (src/src/artnet.rs) and the offline port (src/src/offline.rs).          *)
(*                                                                         *)
(* Every action of the port specifications is one whole call of a public  *)
(* method on one port.  The operating system's answers (does the serial    *)
(* open succeed, does a write_all fail and how) are inputs chosen by \E.   *)
(* Each method is an operator from the port and those inputs to the port   *)
(* afterwards, the result it returns and the I/O it did, in order.         *)
(* Art-Net discovery blocks in recv_from while time passes, and get_socket *)
(* is called by several threads: their actions are the steps between the   *)
(* points where the thread can wait.                                       *)
(* The registry of src/src/lib.rs (available_ports, open_port and the      *)
(* reopening of a saved port) has a specification of its own.              *)
(***************************************************************************)
EXTENDS Integers, Sequences, FiniteSets, TLC

\* ------------------------------------------------------------- bounds
\* Number of method calls in one behaviour.
MaxCalls == 3
\* Frames of the codec specification: every length 0..MaxFrameLen, filled
\* from 0..MaxFill.
MaxFrameLen == 514
MaxFill == 1
\* The calls made on one legacy port.
MaxLegacyCalls == 4
\* Discovery calls in one behaviour of the discovery specification, and
\* Poll Replies one of them receives.
MaxDiscoveries == 2
MaxReplies == 2
\* get_socket calls one thread makes in the socket specification.
MaxGets == 2

\* ---------------------------------------------------------- constants
START_VAL == 126
END_VAL == 231
MIN_UNIVERSE_SIZE == 24
MAX_UNIVERSE_SIZE == 512
SET_PARAMETERS == 4
SEND_DMX_PACKET == 6

\* Option::None of the port field; serial resources are numbered from 1.
None == 0

Min(a, b) == IF a < b THEN a ELSE b

\* The frame of n bytes whose i-th byte is (fill + i) mod 256.
Frame(n, fill) == [i \in 1..n |-> (fill + i) % 256]

\* Frame lengths of the state-machine specification: a frame that is padded,
\* one sent as it is and one that is cut.
FrameLens == {0, MIN_UNIVERSE_SIZE, MAX_UNIVERSE_SIZE + 1}

Frames == {Frame(n, n) : n \in FrameLens}

AllFrames == {Frame(n, f) : n \in 0..MaxFrameLen, f \in 0..MaxFill}

\* ------------------------------------------------- the serial port (OS)
\* What serialport::new(..).open() answers.
OpenOutcomes == {"Ok", "NotFound", "Error"}

\* What one write_packet meets: no failure (at = 0), or its at-th write_all
\* fails with an io::Error of the given kind.  A write_all is taken to
\* deliver its whole buffer or, failing, none of it.
NoFault == [at |-> 0, kind |-> "none"]

Faults(nchunks) ==
    {NoFault} \cup [at : 1..nchunks, kind : {"BrokenPipe", "Other"}]

\* One I/O operation as the operating system sees it.
Io(kind, res, err) ==
    [kind |-> kind, res |-> res, bytes |-> <<>>, err |-> err,
     msg |-> 0, part |-> 0, last |-> FALSE]
IoOpen(outcome, res) == Io("open", res, outcome)
\* A write_all: the part-th of the write_packet of a message of type msg,
\* and whether it is that write_packet's last.
IoWrite(res, bytes, err, msg, part, last) ==
    [kind |-> "write", res |-> res, bytes |-> bytes, err |-> err,
     msg |-> msg, part |-> part, last |-> last]
IoDrop(res) == Io("drop", res, "Ok")

\* A variant that takes every I/O error for a disconnection.
WriteErrorFrom_AlwaysDisconnected(kind) == "Disconnected"

\* From<EnttecWriteError> for WriteError.
WriteErrorFrom(kind) == IF kind = "BrokenPipe" THEN "Disconnected" ELSE "Other"

\* The write_all calls of chunks[i..], against resource res, under fault.
RECURSIVE write_all_from(_, _, _, _)
write_all_from(chunks, i, res, fault) ==
    IF i > Len(chunks) THEN [ret |-> "Ok", io |-> <<>>]
    ELSE IF fault.at = i
    THEN [ret |-> WriteErrorFrom(fault.kind),
          io |-> <<IoWrite(res, <<>>, fault.kind, chunks[1][2], i, i = Len(chunks))>>]
    ELSE LET rest == write_all_from(chunks, i + 1, res, fault)
         IN [ret |-> rest.ret,
             io |-> <<IoWrite(res, chunks[i], "Ok", chunks[1][2], i, i = Len(chunks))>>
                    \o rest.io]

BoolToInt(b) == IF b THEN 1 ELSE 0

\* A variant whose length field leaves the pad byte out.
packet_chunks_PadNotCounted(message_type, payload, add_payload_pad_byte) ==
    LET payload_size == Len(payload)
        header == <<START_VAL, message_type, payload_size % 256,
                    (payload_size \div 256) % 256>>
    IN <<header>>
       \o (IF add_payload_pad_byte THEN <<(<<0>>)>> ELSE <<>>)
       \o <<payload>>
       \o <<(<<END_VAL>>)>>

\* The buffers write_packet hands to write_all, in order.
packet_chunks(message_type, payload, add_payload_pad_byte) ==
    LET payload_size == Len(payload) + BoolToInt(add_payload_pad_byte)
        len_lsb == payload_size % 256
        len_msb == (payload_size \div 256) % 256
        header == <<START_VAL, message_type, len_lsb, len_msb>>
    IN <<header>>
       \o (IF add_payload_pad_byte THEN <<(<<0>>)>> ELSE <<>>)
       \o <<payload>>
       \o <<(<<END_VAL>>)>>

write_packet(message_type, payload, add_payload_pad_byte, res, fault) ==
    write_all_from(packet_chunks(message_type, payload, add_payload_pad_byte),
                   1, res, fault)

\* EnttecParams::default.
DefaultParams == [break_time |-> 9, mark_after_break_time |-> 1, output_rate |-> 40]

\* EnttecParams::write_into.
write_into(params, res, fault) ==
    LET payload == <<0, 0, params.break_time, params.mark_after_break_time,
                     params.output_rate>>
    IN write_packet(SET_PARAMETERS, payload, FALSE, res, fault)

\* EnttecDmxPort::write_params: the port is Some whenever open() calls it.
write_params(p, fault) ==
    IF p.port = None THEN [ret |-> "Disconnected", io |-> <<>>]
    ELSE write_into(p.params, p.port, fault)

\* A variant that never pads a short frame.
dmx_payload_NoPad(frame) == SubSeq(frame, 1, Min(Len(frame), MAX_UNIVERSE_SIZE))

\* A variant that never cuts a long frame.
dmx_payload_NoCut(frame) ==
    IF Len(frame) < MIN_UNIVERSE_SIZE
    THEN frame \o [i \in 1..(MIN_UNIVERSE_SIZE - Len(frame)) |-> 0]
    ELSE frame

\* The bytes a frame is sent as: padded to the minimum universe size,
\* cut at the maximum.
dmx_payload(frame) ==
    LET size == Len(frame)
    IN IF size < MIN_UNIVERSE_SIZE
       THEN frame \o [i \in 1..(MIN_UNIVERSE_SIZE - size) |-> 0]
       ELSE SubSeq(frame, 1, Min(size, MAX_UNIVERSE_SIZE))

\* A variant without the early return of an open port.
EnttecDmxPort_open_NoGuard(p, o, fresh, pf) ==
    IF o = "NotFound"
    THEN [p |-> p, ret |-> "NotConnected", io |-> <<IoOpen(o, None)>>]
    ELSE IF o # "Ok"
    THEN [p |-> p, ret |-> "Other", io |-> <<IoOpen(o, None)>>]
    ELSE LET opened == [p EXCEPT !.port = fresh]
             sent == write_params(opened, pf)
             old == IF p.port # None THEN <<IoDrop(p.port)>> ELSE <<>>
         IN IF sent.ret # "Ok"
            THEN [p |-> [opened EXCEPT !.port = None], ret |-> "Other",
                  io |-> <<IoOpen(o, fresh)>> \o old \o sent.io \o <<IoDrop(fresh)>>]
            ELSE [p |-> opened, ret |-> "Ok",
                  io |-> <<IoOpen(o, fresh)>> \o old \o sent.io]

\* A variant that keeps the serial port when the parameters fail.
EnttecDmxPort_open_KeepsPort(p, o, fresh, pf) ==
    IF p.port # None THEN [p |-> p, ret |-> "Ok", io |-> <<>>]
    ELSE IF o = "NotFound"
    THEN [p |-> p, ret |-> "NotConnected", io |-> <<IoOpen(o, None)>>]
    ELSE IF o # "Ok"
    THEN [p |-> p, ret |-> "Other", io |-> <<IoOpen(o, None)>>]
    ELSE LET opened == [p EXCEPT !.port = fresh]
             sent == write_params(opened, pf)
         IN [p |-> opened, ret |-> IF sent.ret # "Ok" THEN "Other" ELSE "Ok",
             io |-> <<IoOpen(o, fresh)>> \o sent.io]

\* A variant that sends no parameters on opening.
EnttecDmxPort_open_NoParams(p, o, fresh, pf) ==
    IF p.port # None THEN [p |-> p, ret |-> "Ok", io |-> <<>>]
    ELSE IF o = "NotFound"
    THEN [p |-> p, ret |-> "NotConnected", io |-> <<IoOpen(o, None)>>]
    ELSE IF o # "Ok"
    THEN [p |-> p, ret |-> "Other", io |-> <<IoOpen(o, None)>>]
    ELSE [p |-> [p EXCEPT !.port = fresh], ret |-> "Ok", io |-> <<IoOpen(o, fresh)>>]

\* EnttecDmxPort::open on the port value p = [params, port]; o is the
\* serial open's outcome, fresh the resource it yields, pf the fault the
\* parameter message meets.  Yields the port afterwards, the result and
\* the I/O done.
EnttecDmxPort_open(p, o, fresh, pf) ==
    IF p.port # None THEN [p |-> p, ret |-> "Ok", io |-> <<>>]
    ELSE IF o = "NotFound"
    THEN [p |-> p, ret |-> "NotConnected", io |-> <<IoOpen(o, None)>>]
    ELSE IF o # "Ok"
    THEN [p |-> p, ret |-> "Other", io |-> <<IoOpen(o, None)>>]
    ELSE LET opened == [p EXCEPT !.port = fresh]
             sent == write_params(opened, pf)
         IN IF sent.ret # "Ok"
            THEN [p |-> [opened EXCEPT !.port = None], ret |-> "Other",
                  io |-> <<IoOpen(o, fresh)>> \o sent.io \o <<IoDrop(fresh)>>]
            ELSE [p |-> opened, ret |-> "Ok",
                  io |-> <<IoOpen(o, fresh)>> \o sent.io]

\* EnttecDmxPort::close.
EnttecDmxPort_close(p) ==
    [p |-> [p EXCEPT !.port = None], ret |-> "Ok",
     io |-> IF p.port # None THEN <<IoDrop(p.port)>> ELSE <<>>]

\* A variant that does not reopen a closed port.
EnttecDmxPort_write_NoReopen(p, frame, o, fresh, pf, df) ==
    IF p.port = None THEN [p |-> p, ret |-> "Disconnected", io |-> <<>>]
    ELSE LET write_result ==
                 write_packet(SEND_DMX_PACKET, dmx_payload(frame), TRUE, p.port, df)
         IN IF write_result.ret = "Disconnected"
            THEN [p |-> [p EXCEPT !.port = None], ret |-> "Disconnected",
                  io |-> write_result.io \o <<IoDrop(p.port)>>]
            ELSE [p |-> p, ret |-> write_result.ret, io |-> write_result.io]

\* A variant that hands on the error of a failed reopen.
EnttecDmxPort_write_PassesOpenError(p, frame, o, fresh, pf, df) ==
    LET reopened == IF p.port = None
                    THEN EnttecDmxPort_open(p, o, fresh, pf)
                    ELSE [p |-> p, ret |-> "Ok", io |-> <<>>]
    IN IF reopened.ret # "Ok"
       THEN [p |-> reopened.p, ret |-> "Other", io |-> reopened.io]
       ELSE LET q == reopened.p
                write_result ==
                    write_packet(SEND_DMX_PACKET, dmx_payload(frame), TRUE,
                                 q.port, df)
            IN IF write_result.ret = "Disconnected"
               THEN [p |-> [q EXCEPT !.port = None], ret |-> "Disconnected",
                     io |-> reopened.io \o write_result.io \o <<IoDrop(q.port)>>]
               ELSE [p |-> q, ret |-> write_result.ret,
                     io |-> reopened.io \o write_result.io]

\* A variant that sends the frame again after an error that is no
\* disconnection.
EnttecDmxPort_write_Retries(p, frame, o, fresh, pf, df) ==
    LET reopened == IF p.port = None
                    THEN EnttecDmxPort_open(p, o, fresh, pf)
                    ELSE [p |-> p, ret |-> "Ok", io |-> <<>>]
    IN IF reopened.ret # "Ok"
       THEN [p |-> reopened.p, ret |-> "Disconnected", io |-> reopened.io]
       ELSE LET q == reopened.p
                write_result ==
                    write_packet(SEND_DMX_PACKET, dmx_payload(frame), TRUE,
                                 q.port, df)
                again ==
                    write_packet(SEND_DMX_PACKET, dmx_payload(frame), TRUE,
                                 q.port, NoFault)
            IN IF write_result.ret = "Disconnected"
               THEN [p |-> [q EXCEPT !.port = None], ret |-> "Disconnected",
                     io |-> reopened.io \o write_result.io \o <<IoDrop(q.port)>>]
               ELSE IF write_result.ret = "Other"
               THEN [p |-> q, ret |-> again.ret,
                     io |-> reopened.io \o write_result.io \o again.io]
               ELSE [p |-> q, ret |-> write_result.ret,
                     io |-> reopened.io \o write_result.io]

\* EnttecDmxPort::write.  The open inputs (o, fresh, pf) are used only when
\* the port is closed; df is the fault the frame's message meets.
EnttecDmxPort_write(p, frame, o, fresh, pf, df) ==
    LET reopened == IF p.port = None
                    THEN EnttecDmxPort_open(p, o, fresh, pf)
                    ELSE [p |-> p, ret |-> "Ok", io |-> <<>>]
    IN IF reopened.ret # "Ok"
       THEN [p |-> reopened.p, ret |-> "Disconnected", io |-> reopened.io]
       ELSE IF reopened.p.port = None
       THEN [p |-> reopened.p, ret |-> "Disconnected", io |-> reopened.io]
       ELSE LET q == reopened.p
                write_result ==
                    write_packet(SEND_DMX_PACKET, dmx_payload(frame), TRUE,
                                 q.port, df)
            IN IF write_result.ret = "Disconnected"
               THEN [p |-> [q EXCEPT !.port = None], ret |-> "Disconnected",
                     io |-> reopened.io \o write_result.io \o <<IoDrop(q.port)>>]
               ELSE [p |-> q, ret |-> write_result.ret,
                     io |-> reopened.io \o write_result.io]

\* ------------------------------------------ the legacy EnttecProOutPort
\* FileDesc::new(-1, false): no file.
NoFile == 0 - 1

\* Termios::new(): options read from no port.
BlankOptions == 0

\* EnttecProOutPort::new.
EnttecProOutPort_new ==
    [open |-> FALSE, settingsDirty |-> TRUE,
     settings |-> [userSizeLSB |-> 0, userSizeMSB |-> 0, breakTime |-> 9,
                   markAfterBreakTime |-> 1, refreshRate |-> 40],
     oldOptions |-> BlankOptions, file |-> NoFile]

\* tcsetattr of the options tagged opt: the tag travels in the bytes field.
IoSetOptions(fd, opt, ok) ==
    [Io("tcsetattr", fd, IF ok THEN "Ok" ELSE "Error") EXCEPT !.bytes = <<opt>>]

\* A variant that restores and closes whether or not the port is open.
EnttecProOutPort_stop_NoGuard(l, restored) ==
    [p |-> [l EXCEPT !.file = NoFile, !.open = FALSE], ret |-> "Ok",
     io |-> <<Io("tcdrain", l.file, "Ok"),
              IoSetOptions(l.file, l.oldOptions, restored),
              IoDrop(l.file)>>]

\* A variant that closes the file and leaves the port marked open.
EnttecProOutPort_stop_StaysOpen(l, restored) ==
    IF l.open
    THEN [p |-> [l EXCEPT !.file = NoFile], ret |-> "Ok",
          io |-> <<Io("tcdrain", l.file, "Ok"),
                   IoSetOptions(l.file, l.oldOptions, restored),
                   IoDrop(l.file)>>]
    ELSE [p |-> l, ret |-> "Ok", io |-> <<>>]

\* EnttecProOutPort::stop; restored is what the tcsetattr of the old options
\* answers (the code ignores it).
EnttecProOutPort_stop(l, restored) ==
    IF l.open
    THEN [p |-> [l EXCEPT !.file = NoFile, !.open = FALSE], ret |-> "Ok",
          io |-> <<Io("tcdrain", l.file, "Ok"),
                   IoSetOptions(l.file, l.oldOptions, restored),
                   IoDrop(l.file)>>]
    ELSE [p |-> l, ret |-> "Ok", io |-> <<>>]

\* EnttecProOutPort::start.  env = [restored, file, exclusive, got, set]: the
\* answers of the stop of an open port, of open_file, set_exclusive,
\* get_port_options and set_port_options; fresh is the descriptor open_file
\* yields.
EnttecProOutPort_start(l, env, fresh) ==
    LET stopped == IF l.open THEN EnttecProOutPort_stop(l, env.restored)
                   ELSE [p |-> l, ret |-> "Ok", io |-> <<>>]
        l0 == stopped.p
    IN IF ~env.file
       THEN [p |-> l0, ret |-> "PortFileOpenError",
             io |-> stopped.io \o <<Io("open", None, "Error")>>]
       ELSE
       LET l1 == [l0 EXCEPT !.settingsDirty = TRUE, !.file = fresh, !.open = TRUE]
           io1 == stopped.io \o <<Io("open", fresh, "Ok")>>
       IN IF ~env.exclusive
          THEN LET s == EnttecProOutPort_stop(l1, env.restored)
               IN [p |-> s.p, ret |-> "PortSetExclusiveError",
                   io |-> io1 \o <<Io("tiocexcl", fresh, "Error")>> \o s.io]
          ELSE
          LET io2 == io1 \o <<Io("tiocexcl", fresh, "Ok")>>
          IN IF ~env.got
             THEN LET s == EnttecProOutPort_stop(l1, env.restored)
                  IN [p |-> s.p, ret |-> "PortOptionsError",
                      io |-> io2 \o <<Io("tcgetattr", fresh, "Error")>> \o s.io]
             ELSE
             LET l2 == [l1 EXCEPT !.oldOptions = fresh]
                 io3 == io2 \o <<Io("tcgetattr", fresh, "Ok")>>
             IN IF ~env.set
                THEN LET s == EnttecProOutPort_stop(l2, env.restored)
                     IN [p |-> s.p, ret |-> "PortOptionsError",
                         io |-> io3 \o <<IoSetOptions(fresh, 0 - fresh, FALSE)>> \o s.io]
                ELSE [p |-> l2, ret |-> "Ok",
                      io |-> io3 \o <<IoSetOptions(fresh, 0 - fresh, TRUE),
                                      Io("tcflush", fresh, "Ok"),
                                      Io("tiocm", fresh, "Ok")>>]

\* A variant whose length field leaves the start code out.
send_data_chunks_StartCodeNotCounted(label, data, isDmx) ==
    LET length == IF isDmx /\ Len(data) < 24 THEN 24 ELSE Len(data)
        pads_to_add == length - Len(data)
        header == <<126, label, length % 256, (length \div 256) % 256>>
                  \o (IF isDmx THEN <<0>> ELSE <<>>)
    IN <<header>>
       \o (IF length # 0 THEN <<data>> ELSE <<>>)
       \o (IF pads_to_add > 0 THEN <<[i \in 1..pads_to_add |-> 0]>> ELSE <<>>)
       \o <<(<<231>>)>>

\* The buffers send_data hands to file.write, in order.
send_data_chunks(label, data, isDmx) ==
    LET short == isDmx /\ Len(data) < 24
        pads_to_add == IF short THEN 24 - Len(data) ELSE 0
        length == IF short THEN 24 ELSE Len(data)
        header == IF isDmx
                  THEN <<126, label, (length + 1) % 256, ((length + 1) \div 256) % 256, 0>>
                  ELSE <<126, label, length % 256, (length \div 256) % 256>>
        end_of_message == <<231>>
    IN <<header>>
       \o (IF length # 0 THEN <<data>> ELSE <<>>)
       \o (IF pads_to_add > 0 THEN <<[i \in 1..pads_to_add |-> 0]>> ELSE <<>>)
       \o <<end_of_message>>

\* The file.write calls of chunks[i..] on the descriptor fd: the first that
\* fails ends send_data with its IoError.
RECURSIVE file_writes(_, _, _, _)
file_writes(chunks, i, fd, fault) ==
    IF i > Len(chunks) THEN [ret |-> "Ok", io |-> <<>>]
    ELSE IF fault.at = i
    THEN [ret |-> "IoError",
          io |-> <<IoWrite(fd, <<>>, fault.kind, chunks[1][2], i, i = Len(chunks))>>]
    ELSE LET rest == file_writes(chunks, i + 1, fd, fault)
         IN [ret |-> rest.ret,
             io |-> <<IoWrite(fd, chunks[i], "Ok", chunks[1][2], i, i = Len(chunks))>>
                    \o rest.io]

\* send_data.
send_data(file, label, data, isDmx, fault) ==
    file_writes(send_data_chunks(label, data, isDmx), 1, file, fault)

\* EnttecProParams::as_vec.
as_vec(settings) ==
    <<settings.userSizeLSB, settings.userSizeMSB, settings.breakTime,
      settings.markAfterBreakTime, settings.refreshRate>>

\* A variant that clears settingsDirty before the settings are written.
EnttecProOutPort_send_ClearsFirst(l, dmx, sf, df) ==
    IF ~l.open THEN [p |-> l, ret |-> "PortClosed", io |-> <<>>]
    ELSE LET l1 == [l EXCEPT !.settingsDirty = FALSE]
             s == IF l.settingsDirty
                  THEN send_data(l.file, SET_PARAMETERS, as_vec(l.settings), FALSE, sf)
                  ELSE [ret |-> "Ok", io |-> <<>>]
         IN IF s.ret # "Ok" THEN [p |-> l1, ret |-> "SendDataError", io |-> s.io]
            ELSE LET io1 == IF l.settingsDirty
                            THEN s.io \o <<Io("tcdrain", l.file, "Ok")>>
                            ELSE <<>>
                     d == send_data(l1.file, SEND_DMX_PACKET, dmx, TRUE, df)
                 IN [p |-> l1,
                     ret |-> IF d.ret # "Ok" THEN "SendDataError" ELSE "Ok",
                     io |-> io1 \o d.io]

\* EnttecProOutPort::send; sf and df are the faults the settings message and
\* the frame's message meet.
EnttecProOutPort_send(l, dmx, sf, df) ==
    IF ~l.open THEN [p |-> l, ret |-> "PortClosed", io |-> <<>>]
    ELSE LET s == IF l.settingsDirty
                  THEN send_data(l.file, SET_PARAMETERS, as_vec(l.settings), FALSE, sf)
                  ELSE [ret |-> "Ok", io |-> <<>>]
         IN IF s.ret # "Ok" THEN [p |-> l, ret |-> "SendDataError", io |-> s.io]
            ELSE LET io1 == IF l.settingsDirty
                            THEN s.io \o <<Io("tcdrain", l.file, "Ok")>>
                            ELSE <<>>
                     l1 == [l EXCEPT !.settingsDirty = FALSE]
                     d == send_data(l1.file, SEND_DMX_PACKET, dmx, TRUE, df)
                 IN [p |-> l1,
                     ret |-> IF d.ret # "Ok" THEN "SendDataError" ELSE "Ok",
                     io |-> io1 \o d.io]

\* A variant that takes any break time up to 127.
EnttecProOutPort_set_break_time_NoLowerBound(l, time) ==
    IF time > 127 THEN [p |-> l, ret |-> "Ok", io |-> <<>>]
    ELSE [p |-> [l EXCEPT !.settingsDirty = TRUE, !.settings.breakTime = time],
          ret |-> "Ok", io |-> <<>>]

\* EnttecProOutPort::set_break_time.
EnttecProOutPort_set_break_time(l, time) ==
    IF time < 9 \/ time > 127 THEN [p |-> l, ret |-> "Ok", io |-> <<>>]
    ELSE [p |-> [l EXCEPT !.settingsDirty = TRUE, !.settings.breakTime = time],
          ret |-> "Ok", io |-> <<>>]

\* EnttecProOutPort::set_mark_after_break_time.
EnttecProOutPort_set_mark_after_break_time(l, time) ==
    IF time < 1 \/ time > 127 THEN [p |-> l, ret |-> "Ok", io |-> <<>>]
    ELSE [p |-> [l EXCEPT !.settingsDirty = TRUE, !.settings.markAfterBreakTime = time],
          ret |-> "Ok", io |-> <<>>]

\* EnttecProOutPort::set_refresh_rate.
EnttecProOutPort_set_refresh_rate(l, rate) ==
    IF rate > 40 THEN [p |-> l, ret |-> "Ok", io |-> <<>>]
    ELSE [p |-> [l EXCEPT !.settings.refreshRate = rate, !.settingsDirty = TRUE],
          ret |-> "Ok", io |-> <<>>]

\* ------------------------------------------------------- ArtnetDmxPort
ARTNET_HEADER == <<65, 114, 116, 45, 78, 101, 116, 0>>
ARTNET_PROTOCOL_VERSION == <<0, 14>>

\* A variant that puts the high byte first.
to_le_bytes_HighFirst(v) == <<(v \div 256) % 256, v % 256>>

to_le_bytes(v) == <<v % 256, (v \div 256) % 256>>
to_be_bytes(v) == <<(v \div 256) % 256, v % 256>>

\* A variant that never adds the pad byte.
send_write_NoPad(w, arnet_port_address, buf) ==
    IF Len(buf) = 0 \/ ~(Len(buf) <= 512) THEN [ret |-> "Other", w |-> w]
    ELSE [ret |-> "Ok",
          w |-> w \o ARTNET_HEADER \o <<0, 80>> \o ARTNET_PROTOCOL_VERSION
                  \o <<0, 0>> \o <<arnet_port_address % 256,
                                   (arnet_port_address \div 256) % 256>>
                  \o <<(Len(buf) \div 256) % 256, Len(buf) % 256>> \o buf]

\* A variant without the upper bound on the payload.
send_write_NoUpperBound(w, arnet_port_address, buf) ==
    IF Len(buf) = 0 THEN [ret |-> "Other", w |-> w]
    ELSE LET padded_len == (Len(buf) + (Len(buf) % 2)) % 65536
         IN [ret |-> "Ok",
             w |-> w \o ARTNET_HEADER \o <<0, 80>> \o ARTNET_PROTOCOL_VERSION
                     \o <<0, 0>> \o <<arnet_port_address % 256,
                                      (arnet_port_address \div 256) % 256>>
                     \o <<(padded_len \div 256) % 256, padded_len % 256>> \o buf
                     \o (IF Len(buf) % 2 # 0 THEN <<0>> ELSE <<>>)]

\* send::write into the buffer w: the result and the buffer afterwards.
send_write(w, arnet_port_address, buf) ==
    IF Len(buf) = 0 THEN [ret |-> "Other", w |-> w]
    ELSE IF ~(Len(buf) <= 512) THEN [ret |-> "Other", w |-> w]
    ELSE LET opcode == 20480
             add_pad_byte == Len(buf) % 2 # 0
             padded_len == (Len(buf) + BoolToInt(add_pad_byte)) % 65536
         IN [ret |-> "Ok",
             w |-> w \o ARTNET_HEADER \o to_le_bytes(opcode)
                     \o ARTNET_PROTOCOL_VERSION \o <<0>> \o <<0>>
                     \o to_le_bytes(arnet_port_address)
                     \o to_be_bytes(padded_len) \o buf
                     \o (IF add_pad_byte THEN <<0>> ELSE <<>>)]

\* The process-wide socket every ArtnetDmxPort holds a clone of.
ArtnetSocket == 1

\* A variant that takes the port for closed and sends nothing.
ArtnetDmxPort_write_Closed(a, frame, sent) ==
    [p |-> a, ret |-> "PortClosed", io |-> <<>>]

\* A variant that does not clear the send buffer before it builds the
\* datagram.
ArtnetDmxPort_write_NoClear(a, frame, sent) ==
    LET built == send_write(a.send_buf, a.params.port_address, frame)
        b == [a EXCEPT !.send_buf = built.w]
    IN IF built.ret # "Ok" THEN [p |-> b, ret |-> "Other", io |-> <<>>]
       ELSE [p |-> b, ret |-> IF sent THEN "Ok" ELSE "Other",
             io |-> <<[Io("send_to", ArtnetSocket, IF sent THEN "Ok" ELSE "Error")
                          EXCEPT !.bytes = b.send_buf]>>]

\* ArtnetDmxPort::write; sent is whether send_to succeeds.
ArtnetDmxPort_write(a, frame, sent) ==
    LET built == send_write(<<>>, a.params.port_address, frame)
        b == [a EXCEPT !.send_buf = built.w]
    IN IF built.ret # "Ok" THEN [p |-> b, ret |-> "Other", io |-> <<>>]
       ELSE [p |-> b, ret |-> IF sent THEN "Ok" ELSE "Other",
             io |-> <<[Io("send_to", ArtnetSocket, IF sent THEN "Ok" ELSE "Error")
                          EXCEPT !.bytes = b.send_buf]>>]

\* A variant of close that empties the send buffer.
ArtnetDmxPort_close_Clears(a) ==
    [p |-> [a EXCEPT !.send_buf = <<>>], ret |-> "Ok", io |-> <<>>]

\* ArtnetDmxPort as DmxPort: open and close.
ArtnetDmxPort_open(a) == [p |-> a, ret |-> "Ok", io |-> <<>>]
ArtnetDmxPort_close(a) == [p |-> a, ret |-> "Ok", io |-> <<>>]

\* Port addresses of the Art-Net port of the state-machine specification.
ArtnetPortAddresses == {4660}

\* ---------------------------------------------- the shared Art-Net socket
\* Sockets are numbered from 1 in the order they are bound.  A read timeout
\* of no duration is no timeout: the socket blocks.
NoTimeout == 0

\* ARTNET_SOCKET before its first use, with the bookkeeping of the sockets
\* bound so far and of those closed again; the read timeout and the
\* broadcast flag are the stored socket's, which all its clones share.
ArtnetSocketNew ==
    [stored |-> None, binds |-> 0, closed |-> 0,
     timeout |-> NoTimeout, broadcast |-> FALSE]

\* A variant that binds anew and stores the new socket over the old one.
get_socket_Rebinds(sk, bindOk, cloneOk) ==
    IF ~bindOk THEN [sk |-> sk, ret |-> "Error", socket |-> None]
    ELSE LET s == sk.binds + 1
         IN [sk |-> [sk EXCEPT !.binds = s, !.stored = s,
                               !.closed = @ + (IF sk.stored # None THEN 1 ELSE 0)],
             ret |-> "Ok", socket |-> s]

\* The body of get_socket, run with the lock held; bindOk and cloneOk are
\* what UdpSocket::bind and try_clone answer where they are called.
get_socket(sk, bindOk, cloneOk) ==
    IF sk.stored # None
    THEN [sk |-> sk, ret |-> IF cloneOk THEN "Ok" ELSE "Error",
          socket |-> IF cloneOk THEN sk.stored ELSE None]
    ELSE IF ~bindOk THEN [sk |-> sk, ret |-> "Error", socket |-> None]
    ELSE LET s == sk.binds + 1
             bound == [sk EXCEPT !.binds = s]
         IN IF ~cloneOk
            THEN [sk |-> [bound EXCEPT !.closed = @ + 1], ret |-> "Error",
                  socket |-> None]
            ELSE [sk |-> [bound EXCEPT !.stored = s], ret |-> "Ok", socket |-> s]

\* --------------------------------------------------- Art-Net discovery
\* A variant that takes the low byte first.
from_be_bytes_LowFirst(b) == b[2] * 256 + b[1]

from_be_bytes(b) == b[1] * 256 + b[2]

\* The Poll Replies of two nodes: the sender's address and its port address
\* as the two bytes of the reply.
PollReplies ==
    {[address |-> 1, port_address |-> <<0, 1>>],
     [address |-> 2, port_address |-> <<18, 52>>]}

\* ArtnetDmxPort::from_poll; cloneOk is what get_socket's try_clone answers.
ArtnetDmxPort_from_poll(sk, reply, cloneOk) ==
    LET g == get_socket(sk, TRUE, cloneOk)
    IN IF g.ret # "Ok" THEN [ret |-> "Error", port |-> <<>>, sk |-> g.sk]
       ELSE [ret |-> "Ok", sk |-> g.sk,
             port |-> [params |-> [addr |-> reply.address,
                                   port_address |-> from_be_bytes(reply.port_address)],
                       send_buf |-> <<>>]]

\* The waits discovery is called with, in clock ticks.
Waits == {0, 1, 2}

\* What recv_from and the parsing of its datagram can come to, other than
\* the read timeout running out.
RecvOutcomes == {"ioerror", "malformed", "other", "reply"}

\* No discovery call was made yet.
DiscoveryNew ==
    [pc |-> "idle", runs |-> 0, wait |-> 0, elapsed |-> 0, waited |-> 0,
     recvStart |-> 0, ports |-> <<>>, replies |-> <<>>, last |-> "none",
     polled |-> FALSE, ret |-> "none", listing |-> <<>>,
     lastOp |-> "none", resetOk |-> FALSE]

\* available_ports up to the loop: fail names the step that fails, if any.
available_ports_begin(d, sk, wait, fail) ==
    LET g == get_socket(sk, fail # "bind", fail # "clone")
        d0 == [DiscoveryNew EXCEPT !.runs = d.runs + 1, !.wait = wait]
        err == [d0 EXCEPT !.ret = "Error"]
    IN IF g.ret # "Ok" THEN [d |-> err, sk |-> g.sk]
       ELSE IF fail = "broadcast" THEN [d |-> err, sk |-> g.sk]
       ELSE LET sk1 == [g.sk EXCEPT !.broadcast = TRUE]
            IN IF fail \in {"buffer", "send"} THEN [d |-> err, sk |-> sk1]
               ELSE [d |-> [d0 EXCEPT !.pc = "loop", !.polled = TRUE], sk |-> sk1]

\* A variant that hands over the whole wait every time.
receive_timeout_WholeWait(wait, waited_so_far) == wait

\* The timeout the loop hands to receive_poll.
receive_timeout(wait, waited_so_far) == wait - waited_so_far

\* The top of an iteration that does not break, up to recv_from: the time
\* waited is read and the read timeout set; setOk is what the operating
\* system answers, and a timeout of no duration is refused as invalid input.
loop_receive(d, sk, setOk) ==
    LET waited_so_far == d.elapsed
        timeout == receive_timeout(d.wait, waited_so_far)
        d1 == [d EXCEPT !.waited = waited_so_far, !.lastOp = "Some"]
    IN IF timeout = 0 \/ ~setOk
       THEN [d |-> [d1 EXCEPT !.last = "settimeout"], sk |-> sk]
       ELSE [d |-> [d1 EXCEPT !.pc = "recv", !.recvStart = d.elapsed],
             sk |-> [sk EXCEPT !.timeout = timeout]]

\* A variant that lists a node once however often it replies.
receive_poll_Dedup(d, sk, outcome, reply, cloneOk) ==
    IF outcome # "reply" THEN [ret |-> IF outcome = "other" THEN "Ok" ELSE "Error",
                               ports |-> d.ports, sk |-> sk]
    ELSE LET f == ArtnetDmxPort_from_poll(sk, reply, cloneOk)
         IN IF f.ret # "Ok" THEN [ret |-> "Error", ports |-> d.ports, sk |-> f.sk]
            ELSE [ret |-> "Ok", sk |-> f.sk,
                  ports |-> IF \E i \in DOMAIN d.ports : d.ports[i] = f.port
                            THEN d.ports ELSE Append(d.ports, f.port)]

\* receive_poll from recv_from on: what it returns and the ports afterwards.
receive_poll(d, sk, outcome, reply, cloneOk) ==
    IF outcome \in {"timeout", "ioerror"}
    THEN [ret |-> "Error", ports |-> d.ports, sk |-> sk]
    ELSE IF outcome = "malformed"
    THEN [ret |-> "Error", ports |-> d.ports, sk |-> sk]
    ELSE IF outcome = "reply"
    THEN LET f == ArtnetDmxPort_from_poll(sk, reply, cloneOk)
         IN IF f.ret # "Ok" THEN [ret |-> "Error", ports |-> d.ports, sk |-> f.sk]
            ELSE [ret |-> "Ok", ports |-> Append(d.ports, f.port), sk |-> f.sk]
    ELSE [ret |-> "Ok", ports |-> d.ports, sk |-> sk]

\* A variant that gives the error of receive_poll to the caller.
after_receive_Propagates(d, r) ==
    IF r.ret # "Ok" THEN [d EXCEPT !.pc = "idle", !.ret = "Error", !.ports = r.ports]
    ELSE [d EXCEPT !.pc = "loop", !.ports = r.ports]

\* The loop after receive_poll: an error is logged, and the loop goes on.
after_receive(d, r) == [d EXCEPT !.pc = "loop", !.ports = r.ports]

\* A variant that leaves the read timeout as the loop set it.
available_ports_return_NoReset(d, sk, resetOk) ==
    [d |-> [d EXCEPT !.pc = "idle", !.ret = "Ok", !.listing = d.ports],
     sk |-> sk]

\* available_ports after the loop: set_read_timeout(None), whose failure is
\* logged, and Ok(ports).
available_ports_return(d, sk, resetOk) ==
    [d |-> [d EXCEPT !.pc = "idle", !.ret = "Ok", !.listing = d.ports,
                     !.lastOp = "None", !.resetOk = resetOk],
     sk |-> IF resetOk THEN [sk EXCEPT !.timeout = NoTimeout] ELSE sk]

\* The threads that call get_socket.
Threads == {1, 2}

\* No thread is in get_socket and the lock is free (0); got is the socket
\* whose clone a thread's last call returned, n the calls it has made.
ThreadsNew ==
    [lock |-> 0, got |-> [t \in Threads |-> None], n |-> [t \in Threads |-> 0]]

\* ------------------------------------------------------ OfflineDmxPort
OfflineDmxPort_open(p) == [p |-> p, ret |-> "Ok", io |-> <<>>]
OfflineDmxPort_close(p) == [p |-> p, ret |-> "Ok", io |-> <<>>]
\* A variant that refuses a frame longer than a universe.
OfflineDmxPort_write_ChecksLength(p, frame) ==
    [p |-> p, ret |-> IF Len(frame) > 512 THEN "Other" ELSE "Ok", io |-> <<>>]

OfflineDmxPort_write(p, frame) == [p |-> p, ret |-> "Ok", io |-> <<>>]

\* No thread is in available_ports: d is a thread's call, tmo the read
\* timeout that was in force on the socket when its recv_from began.
ParallelNew == [t \in Threads |-> [d |-> DiscoveryNew, tmo |-> NoTimeout]]

\* ----------------------------------------------------------- registry
OFFLINE_NAMESPACE == "offline"
OFFLINE_ID == "offline"
\* The namespace of the Enttec provider.
ENTTEC_NAMESPACE == "enttec"

\* The ports the registry hands out: an OfflineDmxPort, or an EnttecDmxPort
\* opened by its name.
OfflinePort == [namespace |-> OFFLINE_NAMESPACE, id |-> OFFLINE_ID]
EnttecPort(id) == [namespace |-> ENTTEC_NAMESPACE, id |-> id]
NoPort == [namespace |-> "none", id |-> "none"]

\* OfflinePortProvider.
OfflinePortProvider_available_ports == <<OFFLINE_ID>>
OfflinePortProvider_open(port) == [ret |-> "Ok", port |-> OfflinePort]

\* EnttecPortProvider: it reports the names of the devices present, and
\* opens a port by name; o is what opening the serial device answers.
EnttecPortProvider_available_ports(devices) == devices
EnttecDmxPort_new(id, o) ==
    IF o = "Ok" THEN [ret |-> "Ok", port |-> EnttecPort(id)]
    ELSE [ret |-> "Serial", port |-> NoPort]
EnttecPortProvider_open(port, o) == EnttecDmxPort_new(port, o)

\* add_ports of available_ports: the provider's ports under its namespace.
add_ports(ports, namespace, available) ==
    ports \o [i \in 1..Len(available) |-> <<namespace, available[i]>>]

\* A variant that asks the Enttec provider first.
available_ports_EnttecFirst(devices) ==
    add_ports(add_ports(<<>>, ENTTEC_NAMESPACE, EnttecPortProvider_available_ports(devices)),
              OFFLINE_NAMESPACE, OfflinePortProvider_available_ports)

\* available_ports of the registry.
available_ports(devices) ==
    add_ports(add_ports(<<>>, OFFLINE_NAMESPACE, OfflinePortProvider_available_ports),
              ENTTEC_NAMESPACE, EnttecPortProvider_available_ports(devices))

\* No wait was supplied (None); a wait is a number of time units.
NoWait == -1

\* available_ports(artnet_wait): the Offline and Enttec entries, and the
\* Art-Net nodes found when a wait is supplied; found is what discovery
\* comes to, an error or the nodes.  net is whether the network was used.
available_ports_wait(devices, artnet_wait, found) ==
    [listing |-> available_ports(devices)
                 \o (IF artnet_wait = NoWait \/ ~found.ok THEN <<>>
                     ELSE [i \in 1..Len(found.nodes) |-> <<"artnet", found.nodes[i]>>]),
     net |-> artnet_wait # NoWait]

\* A variant that opens the Offline port for a namespace it does not know.
open_port_DefaultsToOffline(namespace, port_name, o) ==
    IF namespace = ENTTEC_NAMESPACE
    THEN EnttecPortProvider_open(port_name, o) @@ [asked |-> <<ENTTEC_NAMESPACE>>]
    ELSE OfflinePortProvider_open(port_name) @@ [asked |-> <<OFFLINE_NAMESPACE>>]

\* open_port: the result, the port and the providers asked to open.
open_port(namespace, port_name, o) ==
    IF namespace = OFFLINE_NAMESPACE
    THEN OfflinePortProvider_open(port_name) @@ [asked |-> <<OFFLINE_NAMESPACE>>]
    ELSE IF namespace = ENTTEC_NAMESPACE
    THEN EnttecPortProvider_open(port_name, o) @@ [asked |-> <<ENTTEC_NAMESPACE>>]
    ELSE [ret |-> "InvalidNamespace", port |-> NoPort, asked |-> <<>>]

\* SerializablePort::open on the descriptor sp = [namespace, id].
SerializablePort_open(sp, o) ==
    IF sp.namespace = OFFLINE_NAMESPACE THEN [ret |-> "Ok", port |-> OfflinePort]
    ELSE IF sp.namespace = ENTTEC_NAMESPACE THEN EnttecDmxPort_new(sp.id, o)
    ELSE [ret |-> "InvalidNamespace", port |-> NoPort]

\* A variant that hands the error of open to the caller.
SerializablePort_reopen_Propagates(sp, o) == SerializablePort_open(sp, o)

\* SerializablePort::reopen: open().unwrap_or(offline).
SerializablePort_reopen(sp, o) ==
    LET r == SerializablePort_open(sp, o)
    IN IF r.ret = "Ok" THEN r ELSE [ret |-> "Ok", port |-> OfflinePort]

\* deserialize: input.ok is whether a descriptor can be read from the
\* serialized form, input.sp the descriptor read.
deserialize(input, o) ==
    IF ~input.ok THEN [ret |-> "DeserializeError", port |-> NoPort]
    ELSE SerializablePort_reopen(input.sp, o)

\* What the registry is asked about.
Namespaces == {"offline", "enttec", "artnet", ""}
PortNames == {"offline", "ttyUSB0", "ttyUSB1"}
DeviceLists == {<<>>, <<"ttyUSB0">>, <<"ttyUSB0", "ttyUSB1">>}
Descriptors == [namespace : Namespaces, id : PortNames]
Malformed == [namespace |-> "malformed", id |-> "malformed"]
Serialized == [ok : {TRUE}, sp : Descriptors] \cup {[ok |-> FALSE, sp |-> Malformed]}
Found == {[ok |-> FALSE, nodes |-> <<>>], [ok |-> TRUE, nodes |-> <<>>],
          [ok |-> TRUE, nodes |-> <<"10.0.0.1">>]}

\* No registry call was made yet.
RegistryNew ==
    [op |-> "none", args |-> <<>>, ret |-> "none", port |-> NoPort, asked |-> <<>>,
     listing |-> <<>>, listed |-> "none", net |-> FALSE, n |-> 0]

\* -------------------------------------------------------------- state
VARIABLES
    enttec,   \* the EnttecDmxPort: [params, port]
    legacy,   \* the EnttecProOutPort
    artnet,   \* the ArtnetDmxPort: [params, send_buf]
    offline,  \* the OfflineDmxPort, a unit struct
    opens,    \* serial ports and port files acquired so far
    live,     \* those the process holds open
    wire,     \* what the Enttec device has seen, oldest first
    call,     \* the last call: what, its inputs, its result, its I/O
    calls,    \* calls made
    sock,     \* ARTNET_SOCKET and the sockets bound for it
    disc,     \* the thread in ArtnetDmxPort::available_ports
    thr,      \* the threads in get_socket and the lock of ARTNET_SOCKET
    par,      \* the threads in available_ports at the same time
    reg       \* the registry: its last call and the last listing

vars == <<enttec, legacy, artnet, offline, opens, live, wire, call, calls,
          sock, disc, thr, par, reg>>

\* The ports and the record of their calls.
portVars == <<enttec, legacy, artnet, offline, opens, live, wire, call, calls>>

\* What the Enttec device sees of a call's I/O: its serial port opened, a
\* message begun (the first write_all of a write_packet) and a message ended
\* (the last write_all of a write_packet, in full).
RECURSIVE WireEvents(_)
WireEvents(io) ==
    IF io = <<>> THEN <<>>
    ELSE LET e == Head(io)
             ev == IF e.kind = "open" /\ e.err = "Ok"
                   THEN <<[ev |-> "open", res |-> e.res, type |-> 0]>>
                   ELSE IF e.kind = "write" /\ e.part = 1
                   THEN <<[ev |-> "begin", res |-> e.res, type |-> e.msg]>>
                   ELSE IF e.kind = "write" /\ e.last /\ e.err = "Ok"
                   THEN <<[ev |-> "end", res |-> e.res, type |-> e.msg]>>
                   ELSE <<>>
         IN ev \o WireEvents(Tail(io))

Opened(io) == {io[i].res : i \in {j \in DOMAIN io : io[j].kind = "open" /\ io[j].err = "Ok"}}
Dropped(io) == {io[i].res : i \in {j \in DOMAIN io : io[j].kind = "drop"}}

\* The ports before a call.
Snapshot ==
    [enttec |-> enttec, legacy |-> legacy, artnet |-> artnet, offline |-> offline,
     opens |-> opens, live |-> live]

\* EnttecDmxPort::new, EnttecProOutPort::new, an ArtnetDmxPort built from a
\* poll reply or a saved description, and an OfflineDmxPort.
Init ==
    /\ enttec = [params |-> DefaultParams, port |-> None]
    /\ legacy = EnttecProOutPort_new
    /\ \E pa \in ArtnetPortAddresses :
         artnet = [params |-> [port_address |-> pa], send_buf |-> <<>>]
    /\ offline = "OfflineDmxPort"
    /\ opens = 0
    /\ live = {}
    /\ wire = <<>>
    /\ calls = 0
    /\ call = [target |-> "none", op |-> "new", frame |-> <<>>, env |-> <<>>,
               ret |-> "Ok", io |-> <<>>, pre |-> Snapshot]
    /\ sock = ArtnetSocketNew
    /\ disc = DiscoveryNew
    /\ thr = ThreadsNew
    /\ par = ParallelNew
    /\ reg = RegistryNew

\* What every call does to the bookkeeping: r is its result and I/O.
Called(target, op, frame, env, r) ==
    /\ calls < MaxCalls
    /\ calls' = calls + 1
    /\ opens' = opens + Cardinality(Opened(r.io))
    /\ live' = (live \cup Opened(r.io)) \ Dropped(r.io)
    /\ wire' = IF target = "enttec" THEN wire \o WireEvents(r.io) ELSE wire
    /\ call' = [target |-> target, op |-> op, frame |-> frame, env |-> env,
                ret |-> r.ret, io |-> r.io, pre |-> Snapshot]
    /\ UNCHANGED <<sock, disc, thr, par, reg>>

\* The environment of an Enttec call: the serial open's outcome and the
\* faults the parameter message and the frame's message meet.
EnttecEnv(o, pf, df) == [open |-> o, params |-> pf, frame |-> df]

\* The environments a call on the port p can meet: what is not reached is
\* not asked for.
EnttecEnvs(p, writes) ==
    {e \in [open : OpenOutcomes, params : Faults(3), frame : Faults(4)] :
        /\ p.port # None => (e.open = "Ok" /\ e.params = NoFault)
        /\ e.open # "Ok" => e.params = NoFault
        /\ (e.open # "Ok" \/ e.params # NoFault \/ ~writes) => e.frame = NoFault}

EnttecCall(op, frame, env, r) ==
    /\ Called("enttec", op, frame, env, r)
    /\ enttec' = r.p
    /\ UNCHANGED <<legacy, artnet, offline>>

EnttecOpen ==
    \E env \in EnttecEnvs(enttec, FALSE) :
        EnttecCall("open", <<>>, env,
                   EnttecDmxPort_open(enttec, env.open, opens + 1, env.params))

EnttecClose ==
    EnttecCall("close", <<>>, EnttecEnv("Ok", NoFault, NoFault),
               EnttecDmxPort_close(enttec))

EnttecWrite ==
    \E frame \in Frames, env \in EnttecEnvs(enttec, TRUE) :
        EnttecCall("write", frame, env,
                   EnttecDmxPort_write(enttec, frame, env.open, opens + 1,
                                       env.params, env.frame))

LegacyCall(op, env, r) ==
    /\ Called("legacy", op, <<>>, env, r)
    /\ legacy' = r.p
    /\ UNCHANGED <<enttec, artnet, offline>>

\* The answers start() can meet: those after a failure are not asked for.
StartEnvs ==
    {e \in [restored : BOOLEAN, file : BOOLEAN, exclusive : BOOLEAN,
            got : BOOLEAN, set : BOOLEAN] :
        /\ ~e.file => (e.exclusive /\ e.got /\ e.set)
        /\ ~e.exclusive => (e.got /\ e.set)
        /\ ~e.got => e.set}

\* Whether start() under env comes to call stop() on an open port.
StartStops(l, env) ==
    l.open \/ (env.file /\ ~(env.exclusive /\ env.got /\ env.set))

LegacyStart ==
    \E env \in StartEnvs :
        /\ ~StartStops(legacy, env) => env.restored
        /\ LegacyCall("start", env, EnttecProOutPort_start(legacy, env, opens + 1))

LegacyStop ==
    \E restored \in BOOLEAN :
        /\ ~legacy.open => restored
        /\ LegacyCall("stop", [restored |-> restored],
                      EnttecProOutPort_stop(legacy, restored))

ArtnetCall(op, frame, env, r) ==
    /\ Called("artnet", op, frame, env, r)
    /\ artnet' = r.p
    /\ UNCHANGED <<enttec, legacy, offline>>

ArtnetOpen == ArtnetCall("open", <<>>, <<>>, ArtnetDmxPort_open(artnet))

ArtnetClose == ArtnetCall("close", <<>>, <<>>, ArtnetDmxPort_close(artnet))

ArtnetWrite ==
    \E frame \in Frames \cup {Frame(1, 0)} :
        \E sent \in (IF Len(frame) \in 1..512 THEN BOOLEAN ELSE {TRUE}) :
            ArtnetCall("write", frame, [sent |-> sent],
                       ArtnetDmxPort_write(artnet, frame, sent))

OfflineCall(op, frame, r) ==
    /\ Called("offline", op, frame, <<>>, r)
    /\ offline' = r.p
    /\ UNCHANGED <<enttec, legacy, artnet>>

OfflineOpen == OfflineCall("open", <<>>, OfflineDmxPort_open(offline))

OfflineClose == OfflineCall("close", <<>>, OfflineDmxPort_close(offline))

OfflineWrite ==
    \E frame \in Frames : OfflineCall("write", frame, OfflineDmxPort_write(offline, frame))

Next ==
    \/ EnttecOpen
    \/ EnttecClose
    \/ EnttecWrite
    \/ LegacyStart
    \/ LegacyStop
    \/ ArtnetOpen
    \/ ArtnetClose
    \/ ArtnetWrite
    \/ OfflineOpen
    \/ OfflineClose
    \/ OfflineWrite

Spec == Init /\ [][Next]_vars

\* ------------------------------------------------ the codec specification
\* A port is constructed, perhaps opened, and one frame of any length is
\* written to it; the serial port is there and takes every byte.
CodecOpen ==
    /\ calls = 0
    /\ EnttecCall("open", <<>>, EnttecEnv("Ok", NoFault, NoFault),
                  EnttecDmxPort_open(enttec, "Ok", opens + 1, NoFault))

CodecWrite ==
    /\ call.op # "write"
    /\ \E frame \in AllFrames :
         EnttecCall("write", frame, EnttecEnv("Ok", NoFault, NoFault),
                    EnttecDmxPort_write(enttec, frame, "Ok", opens + 1,
                                        NoFault, NoFault))

NextCodec == CodecOpen \/ CodecWrite

SpecCodec == Init /\ [][NextCodec]_vars

\* ----------------------------------------- the legacy codec specification
\* A legacy port is constructed, perhaps started, and one frame of any
\* length is sent on it; the serial port is there and takes every byte.
LegacyCodecStart ==
    /\ calls = 0
    /\ LegacyCall("start", [restored |-> TRUE, file |-> TRUE, exclusive |-> TRUE,
                            got |-> TRUE, set |-> TRUE],
                  EnttecProOutPort_start(
                      legacy,
                      [restored |-> TRUE, file |-> TRUE, exclusive |-> TRUE,
                       got |-> TRUE, set |-> TRUE],
                      opens + 1))

LegacyCodecSend ==
    /\ call.op # "send"
    /\ \E dmx \in AllFrames :
         LET r == EnttecProOutPort_send(legacy, dmx, NoFault, NoFault)
         IN /\ Called("legacy", "send", dmx, [settings |-> NoFault, frame |-> NoFault], r)
            /\ legacy' = r.p
            /\ UNCHANGED <<enttec, artnet, offline>>

NextLegacyCodec == LegacyCodecStart \/ LegacyCodecSend

SpecLegacyCodec == Init /\ [][NextLegacyCodec]_vars

\* ---------------------------------------- the Art-Net codec specification
\* Port addresses of the Art-Net codec specification: the ends of the 16-bit
\* range and values that tell the two bytes and their order apart.
ArtnetCodecAddresses == {0, 1, 255, 256, 4660, 65535}

\* An ArtnetDmxPort of any of those addresses, next to the other ports.
InitArtnetCodec ==
    /\ enttec = [params |-> DefaultParams, port |-> None]
    /\ legacy = EnttecProOutPort_new
    /\ \E pa \in ArtnetCodecAddresses :
         artnet = [params |-> [port_address |-> pa], send_buf |-> <<>>]
    /\ offline = "OfflineDmxPort"
    /\ opens = 0
    /\ live = {}
    /\ wire = <<>>
    /\ calls = 0
    /\ call = [target |-> "none", op |-> "new", frame |-> <<>>, env |-> <<>>,
               ret |-> "Ok", io |-> <<>>, pre |-> Snapshot]
    /\ sock = ArtnetSocketNew
    /\ disc = DiscoveryNew
    /\ thr = ThreadsNew
    /\ par = ParallelNew
    /\ reg = RegistryNew

\* One frame of any length is written to the port.
ArtnetCodecWrite ==
    /\ calls = 0
    /\ \E frame \in AllFrames :
         \E sent \in (IF Len(frame) \in 1..512 THEN BOOLEAN ELSE {TRUE}) :
            ArtnetCall("write", frame, [sent |-> sent],
                       ArtnetDmxPort_write(artnet, frame, sent))

\* After a write that sent nothing, another frame is written.
ArtnetCodecWriteAgain ==
    /\ calls = 1
    /\ call.ret # "Ok" /\ call.io = <<>>
    /\ \E frame \in Frames \cup {Frame(1, 0)} :
         \E sent \in (IF Len(frame) \in 1..512 THEN BOOLEAN ELSE {TRUE}) :
            ArtnetCall("write", frame, [sent |-> sent],
                       ArtnetDmxPort_write(artnet, frame, sent))

NextArtnetCodec == ArtnetCodecWrite \/ ArtnetCodecWriteAgain

SpecArtnetCodec == InitArtnetCodec /\ [][NextArtnetCodec]_vars

\* ------------------------------------------ the discovery specification
\* One thread calls ArtnetDmxPort::available_ports, again and again; the
\* clock ticks while a call runs, and the network hands it datagrams or
\* nothing.
DiscStep(r) ==
    /\ disc' = r.d
    /\ sock' = r.sk
    /\ UNCHANGED <<portVars, thr, par, reg>>

\* The call up to its loop.  A bind is asked for only while nothing is
\* stored.
DiscBegin ==
    /\ disc.pc = "idle"
    /\ disc.runs < MaxDiscoveries
    /\ \E wait \in Waits :
         \E fail \in {"none", "bind", "clone", "broadcast", "buffer", "send"} :
            /\ fail = "bind" => sock.stored = None
            /\ DiscStep(available_ports_begin(disc, sock, wait, fail))

\* An iteration that does not break: it sets the timeout and blocks in
\* recv_from, or fails to set it and comes round again.
DiscLoop ==
    /\ disc.pc = "loop"
    /\ ~(disc.elapsed > disc.wait)
    /\ \E setOk \in BOOLEAN : DiscStep(loop_receive(disc, sock, setOk))

\* recv_from returns a datagram or an I/O error, and the loop comes round.
DiscRecv ==
    /\ disc.pc = "recv"
    /\ \E outcome \in RecvOutcomes, reply \in PollReplies, cloneOk \in BOOLEAN :
         /\ outcome # "reply" => (cloneOk /\ reply.address = 1)
         /\ outcome = "reply" => Len(disc.replies) < MaxReplies
         /\ LET r == receive_poll(disc, sock, outcome, reply, cloneOk)
                d == after_receive(disc, r)
            IN DiscStep([d |-> [d EXCEPT
                                  !.last = IF outcome = "reply" /\ ~cloneOk
                                           THEN "nobuild" ELSE outcome,
                                  !.replies = IF outcome = "reply"
                                              THEN Append(@, [reply |-> reply,
                                                              built |-> cloneOk])
                                              ELSE @],
                         sk |-> r.sk])

\* recv_from gives up once the read timeout has run out: a socket without
\* a timeout never does.
DiscRecvTimeout ==
    /\ disc.pc = "recv"
    /\ sock.timeout # NoTimeout
    /\ disc.elapsed >= disc.recvStart + sock.timeout
    /\ LET r == receive_poll(disc, sock, "timeout", <<>>, TRUE)
           d == after_receive(disc, r)
       IN DiscStep([d |-> [d EXCEPT !.last = "timeout"], sk |-> r.sk])

\* The iteration that breaks, and the return.
DiscReturn ==
    /\ disc.pc = "loop"
    /\ disc.elapsed > disc.wait
    /\ \E resetOk \in BOOLEAN : DiscStep(available_ports_return(disc, sock, resetOk))

\* The clock, read by Instant::elapsed; it is followed until it is past
\* the wait.
DiscTick ==
    /\ disc.pc # "idle"
    /\ disc.elapsed <= disc.wait
    /\ disc' = [disc EXCEPT !.elapsed = @ + 1]
    /\ UNCHANGED <<portVars, sock, thr, par, reg>>

NextDiscovery ==
    DiscBegin \/ DiscLoop \/ DiscRecv \/ DiscRecvTimeout \/ DiscReturn \/ DiscTick

SpecDiscovery == Init /\ [][NextDiscovery]_vars

\* The thread runs, recv_from honours its timeout and time passes; nothing
\* is asked of the network.
SpecDiscoveryFair ==
    /\ SpecDiscovery
    /\ WF_vars(DiscLoop) /\ WF_vars(DiscRecvTimeout) /\ WF_vars(DiscReturn)
    /\ WF_vars(DiscTick)

\* ---------------------------------- the parallel discovery specification
\* Two threads call ArtnetDmxPort::available_ports, once each, at any
\* time.  Their sockets are clones of the one in ARTNET_SOCKET, so the read
\* timeout either sets is the timeout of both.  set_read_timeout and
\* recv_from are two system calls, and the other thread may run between
\* them; recv_from waits no longer than the timeout in force when it began.
ParStep(t, d, tmo, sk) ==
    /\ par' = [par EXCEPT ![t] = [d |-> d, tmo |-> tmo]]
    /\ sock' = sk
    /\ UNCHANGED <<portVars, disc, thr, reg>>

ParBegin(t) ==
    /\ par[t].d.pc = "idle"
    /\ par[t].d.runs = 0
    /\ \E wait \in Waits, fail \in {"none", "send"} :
         /\ fail = "send" => wait = 0
         /\ LET r == available_ports_begin(par[t].d, sock, wait, fail)
            IN ParStep(t, r.d, NoTimeout, r.sk)

\* The top of an iteration that does not break, up to the return of
\* set_read_timeout.
ParSetTimeout(t) ==
    /\ par[t].d.pc = "loop"
    /\ ~(par[t].d.elapsed > par[t].d.wait)
    /\ \E setOk \in BOOLEAN :
         LET r == loop_receive(par[t].d, sock, setOk)
         IN ParStep(t, IF r.d.pc = "recv" THEN [r.d EXCEPT !.pc = "set"] ELSE r.d,
                    par[t].tmo, r.sk)

\* recv_from begins, under the read timeout the socket has now.
ParRecvFrom(t) ==
    /\ par[t].d.pc = "set"
    /\ ParStep(t, [par[t].d EXCEPT !.pc = "recv", !.recvStart = par[t].d.elapsed],
               sock.timeout, sock)

\* A datagram arrives for the thread in recv_from: each thread is handed
\* one reply at most, and malformed datagrams only before it.
ParRecv(t) ==
    /\ par[t].d.pc = "recv"
    /\ par[t].d.replies = <<>>
    /\ \E outcome \in {"malformed", "reply"} :
         /\ LET reply == [address |-> 1, port_address |-> <<0, 1>>]
                r == receive_poll(par[t].d, sock, outcome, reply, TRUE)
                d == after_receive(par[t].d, r)
            IN ParStep(t, [d EXCEPT !.last = outcome,
                                    !.replies = IF outcome = "reply"
                                                THEN Append(@, [reply |-> reply,
                                                                built |-> TRUE])
                                                ELSE @],
                       par[t].tmo, r.sk)

\* recv_from gives up when its timeout has run out; one that began with no
\* timeout in force never does.
ParRecvTimeout(t) ==
    /\ par[t].d.pc = "recv"
    /\ par[t].tmo # NoTimeout
    /\ par[t].d.elapsed >= par[t].d.recvStart + par[t].tmo
    /\ LET r == receive_poll(par[t].d, sock, "timeout", <<>>, TRUE)
           d == after_receive(par[t].d, r)
       IN ParStep(t, [d EXCEPT !.last = "timeout"], par[t].tmo, r.sk)

ParReturn(t) ==
    /\ par[t].d.pc = "loop"
    /\ par[t].d.elapsed > par[t].d.wait
    /\ \E resetOk \in BOOLEAN :
         LET r == available_ports_return(par[t].d, sock, resetOk)
         IN ParStep(t, r.d, par[t].tmo, r.sk)

\* Whether the thread's call still reads the clock, or waits on it.
ParClockRuns(t) ==
    /\ par[t].d.pc # "idle"
    /\ \/ par[t].d.elapsed <= par[t].d.wait
       \/ /\ par[t].d.pc = "recv"
          /\ par[t].tmo # NoTimeout
          /\ par[t].d.elapsed < par[t].d.recvStart + par[t].tmo

\* The clock: one tick for every call that is under way.
ParTick ==
    /\ \E t \in Threads : ParClockRuns(t)
    /\ par' = [t \in Threads |->
                  IF ParClockRuns(t)
                  THEN [par[t] EXCEPT !.d.elapsed = @ + 1]
                  ELSE par[t]]
    /\ UNCHANGED <<portVars, sock, disc, thr, reg>>

NextDiscoveryPar ==
    \/ \E t \in Threads : ParBegin(t)
    \/ \E t \in Threads : ParSetTimeout(t)
    \/ \E t \in Threads : ParRecvFrom(t)
    \/ \E t \in Threads : ParRecv(t)
    \/ \E t \in Threads : ParRecvTimeout(t)
    \/ \E t \in Threads : ParReturn(t)
    \/ ParTick

SpecDiscoveryPar == Init /\ [][NextDiscoveryPar]_vars

\* --------------------------------------------- the socket specification
\* Threads call get_socket concurrently.  A thread takes the lock of
\* ARTNET_SOCKET when it is free, runs the body and, returning, drops the
\* guard; no thread panics with the lock held, so it is never poisoned.
GetLock(t) ==
    /\ thr.lock = 0
    /\ thr.n[t] < MaxGets
    /\ thr' = [thr EXCEPT !.lock = t]
    /\ UNCHANGED <<portVars, sock, disc, par, reg>>

GetBody(t) ==
    /\ thr.lock = t
    /\ \E bindOk \in BOOLEAN, cloneOk \in BOOLEAN :
         /\ sock.stored # None => bindOk
         /\ (sock.stored = None /\ ~bindOk) => cloneOk
         /\ LET g == get_socket(sock, bindOk, cloneOk)
            IN /\ sock' = g.sk
               /\ thr' = [thr EXCEPT !.lock = 0, !.got[t] = g.socket,
                                      !.n[t] = @ + 1]
    /\ UNCHANGED <<portVars, disc, par, reg>>

NextSocket == \E t \in Threads : GetLock(t) \/ GetBody(t)

SpecSocket == Init /\ [][NextSocket]_vars

\* ----------------------------------------- the Art-Net port specification
\* Only the Art-Net port is used: opened, closed and written to in any
\* order, send_to failing or not.  The environment of a write also notes
\* what the call before it was and how it ended.
ArtnetPortWrite ==
    \E frame \in Frames \cup {Frame(1, 0)} :
        \E sent \in (IF Len(frame) \in 1..512 THEN BOOLEAN ELSE {TRUE}) :
            ArtnetCall("write", frame,
                       [sent |-> sent, prev |-> [op |-> call.op, ret |-> call.ret]],
                       ArtnetDmxPort_write(artnet, frame, sent))

NextArtnetPort == ArtnetOpen \/ ArtnetClose \/ ArtnetPortWrite

SpecArtnetPort == Init /\ [][NextArtnetPort]_vars

\* ------------------------------------- the discovered port specification
\* A Poll Reply with any two bytes in its port-address field arrives, a
\* port is built from it, and frames are written to that port.  The reply
\* is kept in disc.replies.  Every port is written to once; the ports of
\* the addresses of ArtnetCodecAddresses are used further.
PollBuild ==
    /\ disc.replies = <<>>
    /\ \E hi \in 0..255, lo \in 0..255, cloneOk \in BOOLEAN :
         /\ ~cloneOk => (hi = 0 /\ lo = 0)
         /\ LET reply == [address |-> 1, port_address |-> <<hi, lo>>]
                f == ArtnetDmxPort_from_poll(sock, reply, cloneOk)
            IN /\ artnet' = IF f.ret = "Ok" THEN f.port ELSE artnet
               /\ sock' = f.sk
               /\ disc' = [disc EXCEPT !.replies = <<[reply |-> reply,
                                                      built |-> f.ret = "Ok"]>>]
    /\ UNCHANGED <<enttec, legacy, offline, opens, live, wire, call, calls,
                   thr, par, reg>>

\* Whether a port was built from the reply.
PollBuilt == disc.replies # <<>> /\ disc.replies[1].built

PollWrite ==
    /\ PollBuilt
    /\ calls = 0
    /\ \E sent \in BOOLEAN :
         ArtnetCall("write", Frame(3, 0), [sent |-> sent],
                    ArtnetDmxPort_write(artnet, Frame(3, 0), sent))

PollWriteAgain ==
    /\ PollBuilt
    /\ calls > 0
    /\ artnet.params.port_address \in ArtnetCodecAddresses
    /\ \E frame \in Frames \cup {Frame(1, 0)} :
         \E sent \in (IF Len(frame) \in 1..512 THEN BOOLEAN ELSE {TRUE}) :
            ArtnetCall("write", frame, [sent |-> sent],
                       ArtnetDmxPort_write(artnet, frame, sent))

PollOpenClose ==
    /\ PollBuilt
    /\ calls > 0
    /\ artnet.params.port_address \in ArtnetCodecAddresses
    /\ \/ ArtnetCall("open", <<>>, <<>>, ArtnetDmxPort_open(artnet))
       \/ ArtnetCall("close", <<>>, <<>>, ArtnetDmxPort_close(artnet))

NextArtnetPoll == PollBuild \/ PollWrite \/ PollWriteAgain \/ PollOpenClose

SpecArtnetPoll == Init /\ [][NextArtnetPoll]_vars

\* ------------------------------------- the legacy port specification
\* One legacy port is started, stopped, sent on and has its parameters set,
\* in any order; the serial port may refuse any step of start and any write.
LegacyPortCall(op, frame, env, r) ==
    /\ calls < MaxLegacyCalls
    /\ calls' = calls + 1
    /\ opens' = opens + Cardinality(Opened(r.io))
    /\ live' = (live \cup Opened(r.io)) \ Dropped(r.io)
    /\ call' = [target |-> "legacy", op |-> op, frame |-> frame, env |-> env,
                ret |-> r.ret, io |-> r.io, pre |-> Snapshot]
    /\ legacy' = r.p
    /\ UNCHANGED <<enttec, artnet, offline, wire, sock, disc, thr, par, reg>>

LegacyPortStart ==
    \E env \in StartEnvs :
        /\ ~StartStops(legacy, env) => env.restored
        /\ LegacyPortCall("start", <<>>, env,
                          EnttecProOutPort_start(legacy, env, opens + 1))

LegacyPortStop ==
    \E restored \in BOOLEAN :
        /\ ~legacy.open => restored
        /\ LegacyPortCall("stop", <<>>, [restored |-> restored],
                          EnttecProOutPort_stop(legacy, restored))

\* The frame sent: one channel; the settings message fails at its start or
\* not at all, the frame's message at its data or not at all.
LegacyPortSend ==
    \E sf \in {NoFault, [at |-> 1, kind |-> "Other"]},
       df \in {NoFault, [at |-> 2, kind |-> "Other"]} :
        /\ ~(legacy.open /\ legacy.settingsDirty) => sf = NoFault
        /\ (~legacy.open \/ sf # NoFault) => df = NoFault
        /\ LegacyPortCall("send", Frame(1, 0), [settings |-> sf, frame |-> df],
                          EnttecProOutPort_send(legacy, Frame(1, 0), sf, df))

\* The u8 values at and beside the ends of each range.
BreakTimes == {8, 9, 127, 128}
MabTimes == {0, 1, 127, 128}
RefreshRates == {0, 40, 41, 255}

LegacyPortSetBreakTime ==
    \E time \in BreakTimes :
        LegacyPortCall("set_break_time", <<>>, [value |-> time],
                       EnttecProOutPort_set_break_time(legacy, time))

LegacyPortSetMarkAfterBreakTime ==
    \E time \in MabTimes :
        LegacyPortCall("set_mark_after_break_time", <<>>, [value |-> time],
                       EnttecProOutPort_set_mark_after_break_time(legacy, time))

LegacyPortSetRefreshRate ==
    \E rate \in RefreshRates :
        LegacyPortCall("set_refresh_rate", <<>>, [value |-> rate],
                       EnttecProOutPort_set_refresh_rate(legacy, rate))

NextLegacyPort ==
    \/ LegacyPortStart
    \/ LegacyPortStop
    \/ LegacyPortSend
    \/ LegacyPortSetBreakTime
    \/ LegacyPortSetMarkAfterBreakTime
    \/ LegacyPortSetRefreshRate

SpecLegacyPort == Init /\ [][NextLegacyPort]_vars

\* ------------------------------------------- the registry specification
\* The registry is asked for listings, to open ports by namespace and name,
\* and to reopen ports from descriptors, in any order.
RegistryStep(r) ==
    /\ reg.n < MaxCalls
    /\ reg' = [r EXCEPT !.n = reg.n + 1]
    /\ UNCHANGED <<portVars, sock, disc, thr, par>>

RegistryAvailablePorts ==
    \E devices \in DeviceLists :
        RegistryStep([reg EXCEPT !.op = "available_ports",
                                 !.args = [devices |-> devices, wait |-> NoWait],
                                 !.ret = "Ok", !.port = NoPort, !.asked = <<>>,
                                 !.listing = available_ports(devices),
                                 !.listed = "available_ports", !.net = FALSE])

RegistryAvailablePortsWait ==
    \E devices \in DeviceLists, artnet_wait \in {NoWait} \cup Waits,
       found \in Found :
        /\ artnet_wait = NoWait => found = [ok |-> TRUE, nodes |-> <<>>]
        /\ LET r == available_ports_wait(devices, artnet_wait, found)
           IN RegistryStep([reg EXCEPT !.op = "available_ports_wait",
                                       !.args = [devices |-> devices, wait |-> artnet_wait],
                                       !.ret = "Ok", !.port = NoPort, !.asked = <<>>,
                                       !.listing = r.listing,
                                       !.listed = "available_ports_wait",
                                       !.net = r.net])

RegistryOpenPort ==
    \E namespace \in Namespaces, port_name \in PortNames, o \in OpenOutcomes :
        /\ namespace # ENTTEC_NAMESPACE => o = "Ok"
        /\ LET r == open_port(namespace, port_name, o)
           IN RegistryStep([reg EXCEPT !.op = "open_port",
                                       !.args = [namespace |-> namespace,
                                                 id |-> port_name, o |-> o],
                                       !.ret = r.ret, !.port = r.port,
                                       !.asked = r.asked, !.net = FALSE])

RegistryReopen ==
    \E sp \in Descriptors, o \in OpenOutcomes :
        /\ sp.namespace # ENTTEC_NAMESPACE => o = "Ok"
        /\ LET r == SerializablePort_reopen(sp, o)
           IN RegistryStep([reg EXCEPT !.op = "reopen",
                                       !.args = [namespace |-> sp.namespace,
                                                 id |-> sp.id, o |-> o],
                                       !.ret = r.ret, !.port = r.port,
                                       !.asked = <<>>, !.net = FALSE])

RegistryDeserialize ==
    \E input \in Serialized, o \in OpenOutcomes :
        /\ input.sp.namespace # ENTTEC_NAMESPACE => o = "Ok"
        /\ LET r == deserialize(input, o)
           IN RegistryStep([reg EXCEPT !.op = "deserialize",
                                       !.args = [namespace |-> input.sp.namespace,
                                                 id |-> input.sp.id, o |-> o],
                                       !.ret = r.ret, !.port = r.port,
                                       !.asked = <<>>, !.net = FALSE])

NextRegistry ==
    \/ RegistryAvailablePorts
    \/ RegistryAvailablePortsWait
    \/ RegistryOpenPort
    \/ RegistryReopen
    \/ RegistryDeserialize

SpecRegistry == Init /\ [][NextRegistry]_vars

\* ------------------------------------------------------- observations
\* The bytes the write_all calls io[i..j] delivered.
RECURSIVE BytesOf(_, _, _)
BytesOf(io, i, j) ==
    IF i > j THEN <<>>
    ELSE (IF io[i].kind = "write" THEN io[i].bytes ELSE <<>>) \o BytesOf(io, i + 1, j)

\* The serial bytes of the last call.
CallBytes == BytesOf(call.io, 1, Len(call.io))

\* Where the messages of the last call begin, and where the one begun at i
\* ends: at its last write_all or at the write_all that failed.
Begins(type) ==
    {i \in DOMAIN call.io :
        call.io[i].kind = "write" /\ call.io[i].part = 1 /\ call.io[i].msg = type}
EndOf(i) ==
    CHOOSE j \in i..Len(call.io) :
        /\ call.io[j].last \/ call.io[j].err # "Ok"
        /\ \A k \in i..(j - 1) : ~call.io[k].last /\ call.io[k].err = "Ok"
Complete(i) == call.io[EndOf(i)].last /\ call.io[EndOf(i)].err = "Ok"

\* The I/O operations of the last call of one kind.
Ios(kind) == {i \in DOMAIN call.io : call.io[i].kind = kind}

IsEnttec(op) == call.target = "enttec" /\ call.op = op
WasClosed == call.pre.enttec.port = None
WasOpen == call.pre.enttec.port # None

\* A device-side reading of a byte stream as Enttec messages: the sequence
\* of [type, payload], or <<"bad">> where the framing does not hold.
RECURSIVE Decode(_)
Decode(b) ==
    IF b = <<>> THEN <<>>
    ELSE IF Len(b) < 5 \/ b[1] # 126 THEN <<"bad">>
    ELSE LET n == b[3] + 256 * b[4]
         IN IF Len(b) < n + 5 \/ b[n + 5] # 231 THEN <<"bad">>
            ELSE <<[type |-> b[2], payload |-> SubSeq(b, 5, n + 4)]>>
                 \o Decode(SubSeq(b, n + 6, Len(b)))

\* What the device must read of a frame: the start code, the first 512
\* bytes at most, and zeros up to 24 channels.
Channels(frame) ==
    [i \in 1..(IF Len(frame) < 24 THEN 24 ELSE IF Len(frame) > 512 THEN 512 ELSE Len(frame))
        |-> IF i <= Len(frame) THEN frame[i] ELSE 0]

\* ---------------------------------------------------------------- C1
\* C1: a write to a Closed EnttecDmxPort whose device is present and takes
\* every byte returns Ok with no open() call by the caller, leaves the port
\* Open on the serial port it acquired, and the device receives exactly one
\* SET_PARAMETERS message followed by one SEND_DMX message for the frame.
C1_WriteReopens ==
    (/\ IsEnttec("write") /\ WasClosed
     /\ call.env.open = "Ok" /\ call.env.params = NoFault /\ call.env.frame = NoFault)
    => /\ call.ret = "Ok"
       /\ enttec.port # None
       /\ enttec.port \in live
       /\ Cardinality(Ios("open")) = 1
       /\ Decode(CallBytes) =
            <<[type |-> 4, payload |-> <<0, 0, 9, 1, 40>>],
              [type |-> 6, payload |-> <<0>> \o Channels(call.frame)]>>

\* Reached: such a write after the port lost an earlier serial port.
C1_Witness ==
    /\ IsEnttec("write") /\ WasClosed /\ call.ret = "Ok"
    /\ call.pre.opens >= 1
    /\ enttec.port # None

\* ---------------------------------------------------------------- C2
\* C2: when a write to a Closed EnttecDmxPort fails to reopen it (the device
\* is not found, the open fails otherwise, or the parameters cannot be
\* transmitted), write returns Disconnected, no byte of a SEND_DMX message
\* is transmitted, and the port is Closed and holds no serial port.
C2_ReopenFails ==
    (/\ IsEnttec("write") /\ WasClosed
     /\ (call.env.open # "Ok" \/ call.env.params # NoFault))
    => /\ call.ret = "Disconnected"
       /\ Begins(6) = {}
       /\ \A i \in Ios("write") : call.io[i].msg = 4
       /\ enttec.port = None
       /\ live = call.pre.live

\* Reached: the serial port opened and the parameter message failed.
C2_Witness ==
    /\ IsEnttec("write") /\ WasClosed
    /\ call.env.open = "Ok" /\ call.env.params # NoFault
    /\ call.ret = "Disconnected"

\* ---------------------------------------------------------------- C3
\* C3: on an Open EnttecDmxPort, a frame transmission that fails with a
\* broken pipe returns Disconnected and closes the port; one that fails
\* with any other I/O error returns another error and the port stays Open
\* on the same serial port; a successful one leaves the port Open.
C3_WriteFailure ==
    (IsEnttec("write") /\ WasOpen)
    => /\ call.env.frame.kind = "BrokenPipe"
            => /\ call.ret = "Disconnected"
               /\ enttec.port = None
               /\ call.pre.enttec.port \notin live
       /\ call.env.frame.kind = "Other"
            => /\ call.ret \notin {"Ok", "Disconnected"}
               /\ enttec.port = call.pre.enttec.port
               /\ enttec.port \in live
       /\ call.env.frame = NoFault
            => /\ call.ret = "Ok"
               /\ enttec.port = call.pre.enttec.port
               /\ enttec.port \in live

\* Reached: an Open port survives an I/O error that is no broken pipe.
C3_Witness ==
    /\ IsEnttec("write") /\ WasOpen
    /\ call.env.frame.kind = "Other"
    /\ call.ret = "Other" /\ enttec.port # None

\* ---------------------------------------------------------------- C4
\* C4: open() on an Open EnttecDmxPort returns Ok, acquires no serial port,
\* keeps the one it has and transmits nothing: the parameters are not sent
\* again, and the port and the device are as after the first open().
C4_OpenIdempotent ==
    (IsEnttec("open") /\ WasOpen)
    => /\ call.ret = "Ok"
       /\ call.io = <<>>
       /\ enttec = call.pre.enttec
       /\ opens = call.pre.opens
       /\ live = call.pre.live

\* Reached: open() right after a successful open().
C4_Witness ==
    /\ IsEnttec("open") /\ WasOpen
    /\ Len(wire) >= 3

\* ---------------------------------------------------------------- C5
\* C5: if open() acquires the serial port and the transmission of the
\* parameters fails, open() returns an error, the serial port it acquired is
\* released and the port is Closed; if the serial open fails the port stays
\* Closed and the error is NotConnected exactly when the device was not
\* found, otherwise Other.
C5_OpenFailure ==
    (IsEnttec("open") /\ WasClosed)
    => /\ (call.env.open = "Ok" /\ call.env.params # NoFault)
            => /\ call.ret \in {"NotConnected", "Other"}
               /\ enttec.port = None
               /\ Cardinality(Ios("open")) = 1
               /\ \A i \in Ios("open") : call.io[i].res \notin live
               /\ live = call.pre.live
               /\ opens = call.pre.opens + 1
       /\ call.env.open # "Ok"
            => /\ enttec.port = None
               /\ live = call.pre.live
               /\ opens = call.pre.opens
               /\ call.ret = (IF call.env.open = "NotFound" THEN "NotConnected" ELSE "Other")

\* Reached: the serial port was acquired and released again.
C5_Witness ==
    /\ IsEnttec("open") /\ WasClosed
    /\ call.env.open = "Ok" /\ call.env.params # NoFault
    /\ opens = call.pre.opens + 1
    /\ live = call.pre.live

\* ---------------------------------------------------------------- C6
\* C6: every serial port the EnttecDmxPort acquires (in open() or in the
\* reopen inside write) sees the transmission of exactly one SET_PARAMETERS
\* message, begun right after the acquisition; SET_PARAMETERS is begun at no
\* other time; and a SEND_DMX message is begun only on a serial port that
\* has taken a whole SET_PARAMETERS message since it was opened.
C6_ParamsOncePerOpen ==
    /\ \A i \in DOMAIN wire :
         wire[i].ev = "open"
           => /\ i < Len(wire)
              /\ wire[i + 1] = [ev |-> "begin", res |-> wire[i].res, type |-> 4]
              /\ \A j \in DOMAIN wire :
                    (wire[j].ev = "open" /\ wire[j].res = wire[i].res) => j = i
    /\ \A i \in DOMAIN wire :
         (wire[i].ev = "begin" /\ wire[i].type = 4)
           => /\ i > 1
              /\ wire[i - 1] = [ev |-> "open", res |-> wire[i].res, type |-> 0]
    /\ \A i \in DOMAIN wire :
         (wire[i].ev = "begin" /\ wire[i].type = 6)
           => \E j \in 1..(i - 1) :
                wire[j] = [ev |-> "end", res |-> wire[i].res, type |-> 4]

\* Reached: a frame goes out on the second serial port the port acquired.
C6_Witness ==
    \E i, j \in DOMAIN wire :
        /\ i < j
        /\ wire[i].ev = "open" /\ wire[j].ev = "open"
        /\ wire[Len(wire)] = [ev |-> "end", res |-> wire[j].res, type |-> 6]

\* ---------------------------------------------------------------- C7
\* C7: close() always ends Closed with the serial port released, and on a
\* Closed EnttecDmxPort it changes nothing and does no I/O, so that
\* close();close() is close(); stop() on an EnttecProOutPort that is not
\* open changes nothing and does no port I/O.
C7_CloseIdempotent ==
    /\ IsEnttec("close")
         => /\ enttec.port = None
            /\ call.ret = "Ok"
            /\ WasOpen => /\ call.pre.enttec.port \notin live
                          /\ live = call.pre.live \ {call.pre.enttec.port}
            /\ WasClosed => /\ call.io = <<>>
                            /\ enttec = call.pre.enttec
                            /\ live = call.pre.live
            /\ opens = call.pre.opens
    /\ (call.target = "legacy" /\ call.op = "stop" /\ ~call.pre.legacy.open)
         => /\ call.io = <<>>
            /\ legacy = call.pre.legacy
            /\ live = call.pre.live
            /\ opens = call.pre.opens

\* Reached: close() on a port that an earlier close() closed.
C7_Witness ==
    /\ IsEnttec("close") /\ WasClosed
    /\ \E i \in DOMAIN wire : wire[i].ev = "end"
    /\ calls >= 3

\* ---------------------------------------------------------------- C8
\* C8: a call of EnttecDmxPort::write makes at most one serial open (and
\* none on an Open port) and begins at most one SEND_DMX message, which
\* carries the frame of that call; after an I/O operation failed the call
\* does nothing more than release the serial port; open() makes at most one
\* serial open and one parameter transmission and sends no frame, close()
\* does neither; an ArtnetDmxPort write sends at most one datagram, which
\* carries the frame of that call, its open() and close() and every
\* OfflineDmxPort operation do no I/O.
C8_NoRetry ==
    /\ call.target = "enttec"
         => /\ Cardinality(Ios("open")) <= 1
            /\ WasOpen => Ios("open") = {}
            /\ Cardinality(Begins(4)) <= 1
            /\ Cardinality(Begins(6)) <= (IF call.op = "write" THEN 1 ELSE 0)
            /\ call.op = "close" => (Ios("open") = {} /\ Ios("write") = {})
            /\ \A i, j \in DOMAIN call.io :
                  (i < j /\ call.io[i].err # "Ok") => call.io[j].kind = "drop"
            /\ \A i \in Ios("write") :
                  (call.io[i].msg = 6 /\ call.io[i].part = 3 /\ call.io[i].err = "Ok")
                    => call.io[i].bytes = Channels(call.frame)
    /\ call.target = "artnet"
         => /\ Ios("send_to") = DOMAIN call.io
            /\ Len(call.io) <= (IF call.op = "write" THEN 1 ELSE 0)
            /\ \A i \in Ios("send_to") :
                  SubSeq(call.io[i].bytes, 19, 18 + Len(call.frame)) = call.frame
    /\ call.target = "offline" => call.io = <<>>

\* Reached: a frame is sent in full after an earlier frame's transmission
\* was left unfinished.
C8_Witness ==
    /\ IsEnttec("write") /\ call.ret = "Ok"
    /\ \E i \in DOMAIN wire :
          /\ wire[i].ev = "begin" /\ wire[i].type = 6
          /\ i < Len(wire)
          /\ wire[i + 1].ev # "end"

\* ---------------------------------------------------------------- C9
\* C9: every message a write_packet wrote in full, SET_PARAMETERS or
\* SEND_DMX, starts with 0x7E, names its type, ends with 0xE7, and its
\* length field, low byte first, is the number of bytes written between the
\* 4-byte header and the end byte (the start code of a frame among them);
\* the message is that many bytes and 5; SET_PARAMETERS carries the five
\* bytes 0, 0, break time, mark-after-break time, output rate.
C9_Framing ==
    call.target = "enttec"
    => \A i \in Begins(4) \cup Begins(6) :
         Complete(i)
           => LET j == EndOf(i)
                  h == call.io[i].bytes
                  body == BytesOf(call.io, i + 1, j - 1)
                  m == BytesOf(call.io, i, j)
              IN /\ Len(h) = 4
                 /\ h[1] = 126
                 /\ h[2] = call.io[i].msg
                 /\ h[2] \in {4, 6}
                 /\ h[3] \in 0..255 /\ h[4] \in 0..255
                 /\ h[3] + 256 * h[4] = Len(body)
                 /\ call.io[j].bytes = <<231>>
                 /\ Len(m) = Len(body) + 5
                 /\ m[Len(m)] = 231
                 /\ h[2] = 4 => body = <<0, 0, enttec.params.break_time,
                                         enttec.params.mark_after_break_time,
                                         enttec.params.output_rate>>
                 /\ h[2] = 6 => body[1] = 0

\* Reached: a frame of 512 bytes, whose length field needs both bytes.
C9_Witness ==
    /\ IsEnttec("write") /\ call.ret = "Ok"
    /\ Len(call.frame) = 512
    /\ \E i \in Begins(6) : Complete(i) /\ call.io[i].bytes[3] = 1 /\ call.io[i].bytes[4] = 2

\* --------------------------------------------------------------- C10
\* C10: a frame of n < 24 bytes written to an Open EnttecDmxPort goes out as
\* a SEND_DMX message of declared length 25: the zero start code, the n
\* bytes of the frame in order, then 24 - n zeros; a frame of 24 to 512
\* bytes goes out as the start code and its n bytes, and nothing else.
C10_Padding ==
    (IsEnttec("write") /\ WasOpen /\ call.ret = "Ok" /\ Len(call.frame) <= 512)
    => LET d == CallBytes
           n == Len(call.frame)
       IN /\ d[1] = 126 /\ d[2] = 6 /\ d[5] = 0 /\ d[Len(d)] = 231
          /\ \A i \in 1..n : d[5 + i] = call.frame[i]
          /\ n < 24 => /\ d[3] = 25 /\ d[4] = 0
                       /\ Len(d) = 30
                       /\ \A i \in (n + 1)..24 : d[5 + i] = 0
          /\ n >= 24 => /\ d[3] + 256 * d[4] = n + 1
                        /\ Len(d) = n + 6

\* Reached: the empty frame, written to an Open port.
C10_Witness ==
    /\ IsEnttec("write") /\ WasOpen /\ call.ret = "Ok"
    /\ call.frame = <<>>
    /\ Len(CallBytes) = 30

\* --------------------------------------------------------------- C11
\* C11: a frame of more than 512 bytes written to an Open EnttecDmxPort is
\* not rejected: where the serial port takes every byte the write returns Ok
\* and the SEND_DMX message has declared length 513 and carries the start
\* code and the first 512 bytes of the frame, in order; no byte of the frame
\* at index 512 or beyond goes out.
C11_Truncation ==
    (IsEnttec("write") /\ WasOpen /\ call.env.frame = NoFault
        /\ Len(call.frame) > 512)
    => LET d == CallBytes
       IN /\ call.ret = "Ok"
          /\ Len(d) = 518
          /\ d[1] = 126 /\ d[2] = 6
          /\ d[3] + 256 * d[4] = 513
          /\ d[5] = 0
          /\ \A i \in 1..512 : d[5 + i] = call.frame[i]
          /\ d[518] = 231
          /\ Decode(d) = <<[type |-> 6, payload |-> <<0>> \o SubSeq(call.frame, 1, 512)]>>

\* Reached: a frame of 514 bytes written to an Open port, in 518 bytes.
C11_Witness ==
    /\ IsEnttec("write") /\ WasOpen /\ call.ret = "Ok"
    /\ Len(call.frame) = 514
    /\ Len(CallBytes) = 518

\* --------------------------------------------------------------- C12
\* The bytes of the write calls of the last call that belong to messages of
\* one type.
RECURSIVE MsgBytesOf(_, _)
MsgBytesOf(io, type) ==
    IF io = <<>> THEN <<>>
    ELSE (IF Head(io).kind = "write" /\ Head(io).msg = type /\ Head(io).err = "Ok"
          THEN Head(io).bytes ELSE <<>>)
         \o MsgBytesOf(Tail(io), type)

\* The SEND_DMX bytes EnttecDmxPort::write puts on an open serial port that
\* takes every byte.
CurrentEncoding(frame) ==
    MsgBytesOf(EnttecDmxPort_write([params |-> DefaultParams, port |-> 1], frame,
                                   "Ok", 2, NoFault, NoFault).io,
               SEND_DMX_PACKET)

\* C12: for every frame of 1 to 512 bytes, the SEND_DMX message the legacy
\* send_data(OutputOnlySendDmx, frame, isDmx = true) writes is, byte for
\* byte, the SEND_DMX message EnttecDmxPort::write writes for that frame.
C12_LegacyParity ==
    (call.target = "legacy" /\ call.op = "send" /\ call.ret = "Ok"
        /\ Len(call.frame) \in 1..512)
    => MsgBytesOf(call.io, SEND_DMX_PACKET) = CurrentEncoding(call.frame)

\* Reached: the legacy port sent a frame of 5 bytes, padded to 24 channels.
C12_Witness ==
    /\ call.target = "legacy" /\ call.op = "send" /\ call.ret = "Ok"
    /\ Len(call.frame) = 5
    /\ Len(MsgBytesOf(call.io, SEND_DMX_PACKET)) = 30
    /\ MsgBytesOf(call.io, SEND_DMX_PACKET) = CurrentEncoding(call.frame)

\* --------------------------------------------------------------- C13
IsArtnetWrite == call.target = "artnet" /\ call.op = "write"

\* The datagrams the last call handed to send_to.
Datagrams == [i \in 1..Cardinality(Ios("send_to")) |->
                call.io[CHOOSE j \in Ios("send_to") :
                            Cardinality({k \in Ios("send_to") : k <= j}) = i].bytes]

\* C13: for a payload of 1 to 512 bytes and any port address, send::write
\* emits "Art-Net\0", 0x00 0x50, 0 14, sequence 0, physical 0, the port
\* address low byte first, the padded length high byte first, the payload
\* and its pad, and that is the datagram handed to send_to.
C13_OutputLayout ==
    (IsArtnetWrite /\ Len(call.frame) \in 1..512)
    => LET d == artnet.send_buf
           n == Len(call.frame)
           pa == call.pre.artnet.params.port_address
           padded == IF n % 2 = 1 THEN n + 1 ELSE n
       IN /\ Datagrams = <<d>>
          /\ Len(d) = 18 + padded
          /\ SubSeq(d, 1, 8) = <<65, 114, 116, 45, 78, 101, 116, 0>>
          /\ d[9] = 0 /\ d[10] = 80
          /\ d[11] = 0 /\ d[12] = 14
          /\ d[13] = 0
          /\ d[14] = 0
          /\ d[15] \in 0..255 /\ d[16] \in 0..255
          /\ d[15] + 256 * d[16] = pa
          /\ d[17] \in 0..255 /\ d[18] \in 0..255
          /\ 256 * d[17] + d[18] = padded
          /\ SubSeq(d, 19, 18 + n) = call.frame
          /\ \A i \in (19 + n)..Len(d) : d[i] = 0

\* Reached: 300 bytes sent to port address 0x1234: the two bytes of the
\* address differ, and so do the two bytes of the length.
C13_Witness ==
    /\ IsArtnetWrite /\ call.ret = "Ok"
    /\ Len(call.frame) = 300
    /\ artnet.params.port_address = 4660
    /\ SubSeq(artnet.send_buf, 15, 18) = <<52, 18, 1, 44>>

\* --------------------------------------------------------------- C14
\* C14: an odd payload length n in 1..511 is declared as n + 1 and followed
\* by exactly one zero byte; an even n in 2..512 is declared as n with no
\* pad; the declared length is even and is the number of bytes after the
\* 18-byte header.
C14_PadToEven ==
    (IsArtnetWrite /\ Len(call.frame) \in 1..512)
    => LET d == artnet.send_buf
           n == Len(call.frame)
           declared == 256 * d[17] + d[18]
       IN /\ declared % 2 = 0
          /\ declared = Len(d) - 18
          /\ n % 2 = 1 => /\ declared = n + 1
                          /\ Len(d) = 18 + n + 1
                          /\ d[18 + n + 1] = 0
          /\ n % 2 = 0 => /\ declared = n
                          /\ Len(d) = 18 + n
          /\ \A i \in 1..n : d[18 + i] = call.frame[i]

\* Reached: a payload of one byte, sent as two.
C14_Witness ==
    /\ IsArtnetWrite /\ call.ret = "Ok"
    /\ Len(call.frame) = 1
    /\ Len(artnet.send_buf) = 20
    /\ artnet.send_buf[19] = call.frame[1]
    /\ artnet.send_buf[20] = 0

Returned == disc.pc = "idle" /\ disc.ret # "none"

\* C16: once the Poll has been sent, whatever recv_from and the parsing come
\* to (a timeout, an I/O error, a malformed datagram, a datagram that is no
\* Poll Reply, a reply no port can be built from) the loop comes round
\* again; the call returns only when the time waited exceeds the wait, and
\* then it returns Ok with the ports collected so far; it returns an error
\* only where no Poll was sent.
C16_NeverAborts ==
    /\ [](disc.ret = "Error" => ~disc.polled)
    /\ [][(disc.polled /\ disc.pc # "idle")
            => /\ (disc.pc = "recv" /\ disc'.pc # "recv") => disc'.pc = "loop"
               /\ disc'.pc = "idle"
                    => /\ disc'.ret = "Ok"
                       /\ disc.elapsed > disc.wait
                       /\ disc'.listing = disc.ports]_vars

\* Reached: a call returned Ok with a port, after a reply no port could be
\* built from and, last, an I/O error.
C16_Witness ==
    /\ Returned /\ disc.ret = "Ok" /\ disc.polled
    /\ disc.last = "ioerror"
    /\ Len(disc.listing) = 1
    /\ \E i \in DOMAIN disc.replies : ~disc.replies[i].built

\* --------------------------------------------------------------- C17
\* The port a Poll Reply describes.
PortOfReply(reply) ==
    [params |-> [addr |-> reply.address,
                 port_address |-> 256 * reply.port_address[1] + reply.port_address[2]],
     send_buf |-> <<>>]

\* The Poll Replies this call received for which the socket could be cloned.
BuiltReplies == SelectSeq(disc.replies, LAMBDA e : e.built)

\* C17 as stated: the listing holds one port for every Poll Reply received
\* and parsed during the loop, in the order of arrival.
C17_OnePortPerReply ==
    (Returned /\ disc.ret = "Ok")
    => disc.listing = [i \in 1..Len(disc.replies) |-> PortOfReply(disc.replies[i].reply)]

\* C17, amended: the listing holds one port for every Poll Reply received
\* and parsed during this call's loop from which a port could be built (the
\* shared socket could be cloned), in the order of arrival, twice for a node
\* that replied twice, and nothing else: nothing for other datagrams, for
\* replies no port could be built from, or from an earlier call.
C17_OnePortPerBuiltReply ==
    (Returned /\ disc.ret = "Ok")
    => disc.listing = [i \in 1..Len(BuiltReplies) |-> PortOfReply(BuiltReplies[i].reply)]

\* Reached: the second call returned two ports for two replies of the same
\* node.
C17_Witness ==
    /\ Returned /\ disc.ret = "Ok" /\ disc.runs = 2
    /\ Len(disc.replies) = 2
    /\ disc.replies[1] = disc.replies[2]
    /\ disc.replies[1].built
    /\ Len(disc.listing) = 2
    /\ disc.listing[1] = disc.listing[2]

\* --------------------------------------------------------------- C18
\* C18: when available_ports returns an error it has issued no timeout
\* operation; when it returns Ok the last timeout operation it issued is
\* set_read_timeout(None), and where that succeeded the shared socket has no
\* read timeout.
C18_TimeoutReset ==
    /\ (Returned /\ disc.ret = "Error") => disc.lastOp = "none"
    /\ (Returned /\ disc.ret = "Ok")
       => /\ disc.lastOp = "None"
          /\ disc.resetOk => sock.timeout = NoTimeout

\* Reached: a call whose last receive timed out returned, the timeout gone.
C18_Witness ==
    /\ Returned /\ disc.ret = "Ok"
    /\ disc.last = "timeout"
    /\ disc.lastOp = "None" /\ disc.resetOk
    /\ sock.timeout = NoTimeout

\* --------------------------------------------------------------- C19
\* C19: every recv_from is issued under a read timeout that is the wait less
\* the time waited, at least one tick and never more than the wait; and,
\* time passing, every call of available_ports returns, whatever arrives.
C19_Terminates ==
    /\ [](disc.pc = "recv"
            => /\ sock.timeout = disc.wait - disc.waited
               /\ sock.timeout >= 1
               /\ sock.timeout <= disc.wait)
    /\ (disc.pc # "idle") ~> Returned

\* Reached: a call returned whose last iteration found the budget to be
\* exactly zero.
C19_Witness ==
    /\ Returned /\ disc.ret = "Ok"
    /\ disc.wait = 2
    /\ disc.waited = disc.wait
    /\ disc.last = "settimeout"

\* --------------------------------------------------------------- C20
\* C20 as stated: the Art-Net UDP port is successfully bound at most once in
\* the process.
C20_BoundAtMostOnce == sock.binds <= 1

\* C20, amended: under any interleaving of concurrent get_socket calls at
\* most one bound socket is open at a time and at most one is ever stored;
\* once a socket is stored it is never replaced or cleared and no bind
\* follows; every caller that gets a socket gets a clone of the stored one.
\* A socket bound but not cloned is closed unstored, and only then can the
\* port be bound again.
C20_Singleton ==
    /\ [](/\ sock.stored # None => (sock.stored = sock.binds /\ sock.binds = sock.closed + 1)
          /\ sock.stored = None => sock.binds = sock.closed
          /\ \A t \in Threads : thr.got[t] # None => thr.got[t] = sock.stored)
    /\ [][sock.stored # None
            => (sock'.stored = sock.stored /\ sock'.binds = sock.binds)]_vars

\* Reached: the first socket bound could not be cloned and was closed; the
\* second was stored, and both threads hold a clone of it.
C20_Witness ==
    /\ sock.closed = 1 /\ sock.binds = 2 /\ sock.stored = 2
    /\ thr.lock = 0
    /\ \A t \in Threads : thr.got[t] = 2

\* --------------------------------------------------------------- C21
\* C21: open() and close() of an ArtnetDmxPort return Ok, do no I/O and
\* leave the port as it was; a write, failed or not, leaves the port's
\* description as it was and opens nothing; and every write of 1 to 512
\* bytes, whatever came before it, hands its one datagram to send_to on the
\* shared socket and returns what send_to answers.
C21_NoOpenState ==
    /\ (call.target = "artnet" /\ call.op \in {"open", "close"})
       => /\ call.ret = "Ok"
          /\ call.io = <<>>
          /\ artnet = call.pre.artnet
    /\ IsArtnetWrite
       => /\ artnet.params = call.pre.artnet.params
          /\ Ios("open") = {}
          /\ opens = call.pre.opens /\ live = call.pre.live
          /\ \A i \in DOMAIN call.io :
                call.io[i].kind = "send_to" /\ call.io[i].res = ArtnetSocket
    /\ (IsArtnetWrite /\ Len(call.frame) \in 1..512)
       => /\ Cardinality(Ios("send_to")) = 1
          /\ Len(Datagrams[1]) = 18 + Len(call.frame) + (Len(call.frame) % 2)
          /\ SubSeq(Datagrams[1], 19, 18 + Len(call.frame)) = call.frame
          /\ call.ret = (IF call.env.sent THEN "Ok" ELSE "Other")

\* Reached: a write whose send_to failed was followed by a write that went
\* out on the same socket.
C21_Witness ==
    /\ IsArtnetWrite /\ call.ret = "Ok"
    /\ call.env.prev = [op |-> "write", ret |-> "Other"]
    /\ Len(call.pre.artnet.send_buf) > 0
    /\ Cardinality(Ios("send_to")) = 1
    /\ call.io[1].res = ArtnetSocket

\* --------------------------------------------------------------- C22
\* C22 as stated: a write that is the first call on an ArtnetDmxPort, no
\* open() having been called, fails with a port-closed error and sends no
\* datagram.
C22_PortClosedBeforeOpen ==
    (IsArtnetWrite /\ calls = 1)
    => (call.ret = "PortClosed" /\ Ios("send_to") = {})

\* C22, amended: a write on an ArtnetDmxPort on which open() was never
\* called is carried out like any other: with 1 to 512 bytes it sends its
\* datagram on the shared socket and returns Ok where send_to succeeds; no
\* write of an ArtnetDmxPort ever returns a port-closed error.
C22_WritesBeforeOpen ==
    /\ IsArtnetWrite => call.ret # "PortClosed"
    /\ (IsArtnetWrite /\ calls = 1 /\ Len(call.frame) \in 1..512)
       => /\ Cardinality(Ios("send_to")) = 1
          /\ call.env.sent => call.ret = "Ok"

\* Reached: the first call on the port, a write of 24 bytes, returned Ok
\* and sent its datagram of 42 bytes.
C22_Witness ==
    /\ IsArtnetWrite /\ calls = 1 /\ call.ret = "Ok"
    /\ call.env.prev.op = "new"
    /\ Len(call.frame) = 24
    /\ Cardinality(Ios("send_to")) = 1
    /\ Len(Datagrams[1]) = 42

\* --------------------------------------------------------------- C23
\* C23: every open, close and write of the Offline port, with a frame of any
\* length, returns Ok, does no I/O, and leaves the port and everything else
\* as it was.
C23_OfflineInert ==
    call.target = "offline"
    => /\ call.ret = "Ok"
       /\ call.io = <<>>
       /\ offline = call.pre.offline
       /\ enttec = call.pre.enttec /\ legacy = call.pre.legacy
       /\ artnet = call.pre.artnet
       /\ opens = call.pre.opens /\ live = call.pre.live

\* Reached: a frame of 513 bytes written to the Offline port as the third
\* call.
C23_Witness ==
    /\ call.target = "offline" /\ call.op = "write" /\ call.ret = "Ok"
    /\ Len(call.frame) = 513
    /\ calls = 3


\* --------------------------------------------------------------- C24
\* The entries of a listing under one namespace.
EntriesOf(listing, namespace) ==
    {i \in 1..Len(listing) : listing[i][1] = namespace}

IsListing == reg.op \in {"available_ports", "available_ports_wait"}

\* C24: every listing of the registry has exactly one Offline entry, and has
\* it first; the ports the Enttec provider reports follow it, each once and
\* in the provider's order, also when no device is present; without a wait
\* the listing has no Art-Net entry and the network is not used.
C24_OfflineFirst ==
    IsListing =>
        LET devices == reg.args.devices
        IN /\ Len(reg.listing) >= 1 + Len(devices)
           /\ reg.listing[1] = <<OFFLINE_NAMESPACE, OFFLINE_ID>>
           /\ EntriesOf(reg.listing, OFFLINE_NAMESPACE) = {1}
           /\ \A k \in 1..Len(devices) :
                  reg.listing[1 + k] = <<ENTTEC_NAMESPACE, devices[k]>>
           /\ EntriesOf(reg.listing, ENTTEC_NAMESPACE) = 2..(1 + Len(devices))
           /\ reg.args.wait = NoWait =>
                  /\ ~reg.net
                  /\ Len(reg.listing) = 1 + Len(devices)

\* A listing made with two Enttec devices present and no wait.
C24_Witness ==
    /\ reg.op = "available_ports"
    /\ reg.args.devices = <<"ttyUSB0", "ttyUSB1">>
    /\ reg.listing = << <<"offline", "offline">>, <<"enttec", "ttyUSB0">>,
                        <<"enttec", "ttyUSB1">> >>

\* --------------------------------------------------------------- C25
\* C25: reopening from a descriptor never answers an error: it gives the
\* Offline port for the offline namespace, the Enttec port of the
\* descriptor's id when the device opens, and the Offline port otherwise:
\* when the device does not open, and for any other namespace.
C25_ReopenNeverFails ==
    (reg.op \in {"reopen", "deserialize"} /\ reg.args.namespace # Malformed.namespace) =>
        /\ reg.ret = "Ok"
        /\ reg.port =
               IF reg.args.namespace = ENTTEC_NAMESPACE /\ reg.args.o = "Ok"
               THEN EnttecPort(reg.args.id)
               ELSE OfflinePort

\* A descriptor of an Enttec port whose device is gone was reopened.
C25_Witness ==
    /\ reg.op = "reopen"
    /\ reg.args.namespace = ENTTEC_NAMESPACE
    /\ reg.args.o = "NotFound"
    /\ reg.port = OfflinePort

\* --------------------------------------------------------------- C30
\* The pair was in the last listing of available_ports.
Listed(namespace, id) ==
    /\ reg.listed = "available_ports"
    /\ \E i \in 1..Len(reg.listing) : reg.listing[i] = <<namespace, id>>

\* C30: open_port never answers InvalidNamespace for a pair that
\* available_ports listed; for a namespace other than offline and enttec it
\* answers InvalidNamespace and asks no provider; the offline namespace
\* opens for every port name.
C30_ListedNamespacesOpen ==
    reg.op = "open_port" =>
        /\ Listed(reg.args.namespace, reg.args.id) => reg.ret # "InvalidNamespace"
        /\ reg.args.namespace \notin {OFFLINE_NAMESPACE, ENTTEC_NAMESPACE} =>
               /\ reg.ret = "InvalidNamespace"
               /\ reg.asked = <<>>
               /\ reg.port = NoPort
        /\ reg.args.namespace = OFFLINE_NAMESPACE =>
               /\ reg.ret = "Ok"
               /\ reg.port = OfflinePort

\* A listed Enttec pair was handed to open_port.
C30_Witness ==
    /\ reg.op = "open_port"
    /\ reg.args.namespace = ENTTEC_NAMESPACE
    /\ Listed(reg.args.namespace, reg.args.id)
    /\ reg.asked = <<ENTTEC_NAMESPACE>>


\* --------------------------------------------------------------- C26
IsLegacy(op) == call.target = "legacy" /\ call.op = op

\* Whether the setter op takes the value v.
SetterTakes(op, v) ==
    IF op = "set_break_time" THEN v \in 9..127
    ELSE IF op = "set_mark_after_break_time" THEN v \in 1..127
    ELSE v \in 0..40

\* The port l with the parameter of the setter op at v, marked dirty.
WithParameter(l, op, v) ==
    IF op = "set_break_time"
    THEN [l EXCEPT !.settings.breakTime = v, !.settingsDirty = TRUE]
    ELSE IF op = "set_mark_after_break_time"
    THEN [l EXCEPT !.settings.markAfterBreakTime = v, !.settingsDirty = TRUE]
    ELSE [l EXCEPT !.settings.refreshRate = v, !.settingsDirty = TRUE]

Setters == {"set_break_time", "set_mark_after_break_time", "set_refresh_rate"}

\* C26: the break time stays in 9..127, the mark-after-break time in 1..127
\* and the refresh rate in 0..40; a setter called with a value outside its
\* range leaves every parameter and the dirty flag as they were, one called
\* with a value inside stores it and marks the settings dirty; no setter
\* transmits.
C26_SettersInRange ==
    /\ legacy.settings.breakTime \in 9..127
    /\ legacy.settings.markAfterBreakTime \in 1..127
    /\ legacy.settings.refreshRate \in 0..40
    /\ (call.target = "legacy" /\ call.op \in Setters) =>
           /\ call.io = <<>>
           /\ legacy = IF SetterTakes(call.op, call.env.value)
                       THEN WithParameter(call.pre.legacy, call.op, call.env.value)
                       ELSE call.pre.legacy

\* A break time below the range was refused on a port whose settings had
\* been transmitted.
C26_Witness ==
    /\ IsLegacy("set_break_time")
    /\ call.env.value = 8
    /\ call.pre.legacy.open
    /\ ~call.pre.legacy.settingsDirty
    /\ ~legacy.settingsDirty
    /\ legacy.settings.breakTime = 9

\* --------------------------------------------------------------- C28
\* The writes of the last call that belong to a message of the given label.
WritesOf(label) ==
    {i \in DOMAIN call.io : call.io[i].kind = "write" /\ call.io[i].msg = label}

\* The bytes the last call wrote of messages of the given label, in order.
RECURSIVE BytesFrom(_, _)
BytesFrom(i, label) ==
    IF i > Len(call.io) THEN <<>>
    ELSE (IF i \in WritesOf(label) THEN call.io[i].bytes ELSE <<>>)
         \o BytesFrom(i + 1, label)

\* C28: a send on an open port whose settings are dirty writes the
\* SET_PARAMETERS message of the current settings before any byte of the
\* frame's message and clears the flag; with the flag clear it writes the
\* frame's message only; where the settings message fails, the flag stays
\* set and nothing of the frame's message is written.
C28_SettingsBeforeFrame ==
    (IsLegacy("send") /\ call.pre.legacy.open) =>
        LET pre == call.pre.legacy
        IN /\ (pre.settingsDirty /\ call.env.settings = NoFault) =>
                  /\ BytesFrom(1, SET_PARAMETERS)
                         = <<126, SET_PARAMETERS, 5, 0>> \o as_vec(pre.settings) \o <<231>>
                  /\ WritesOf(SEND_DMX_PACKET) # {}
                  /\ \A i \in WritesOf(SET_PARAMETERS), j \in WritesOf(SEND_DMX_PACKET) : i < j
                  /\ ~legacy.settingsDirty
           /\ ~pre.settingsDirty =>
                  /\ WritesOf(SET_PARAMETERS) = {}
                  /\ WritesOf(SEND_DMX_PACKET) # {}
                  /\ ~legacy.settingsDirty
           /\ (pre.settingsDirty /\ call.env.settings # NoFault) =>
                  /\ call.ret = "SendDataError"
                  /\ WritesOf(SEND_DMX_PACKET) = {}
                  /\ legacy.settingsDirty
           /\ legacy.settings = pre.settings

\* A refresh rate set after the first send went out with the next send.
C28_Witness ==
    /\ IsLegacy("send")
    /\ call.ret = "Ok"
    /\ call.pre.legacy.settingsDirty
    /\ call.pre.legacy.settings.refreshRate = 0
    /\ BytesFrom(1, SET_PARAMETERS) = <<126, 4, 5, 0, 0, 0, 9, 1, 0, 231>>
    /\ ~legacy.settingsDirty

\* --------------------------------------------------------------- C29
\* C29: a start() that answers an error leaves the port not open, also when
\* the port was open before; one that answers Ok leaves it open with the
\* settings dirty; a send() on a port that is not open answers PortClosed,
\* writes nothing and changes nothing.
C29_StartAndClosedSend ==
    /\ IsLegacy("start") =>
           /\ call.ret # "Ok" => (~legacy.open /\ legacy.file = NoFile)
           /\ call.ret = "Ok" => (legacy.open /\ legacy.settingsDirty)
    /\ (IsLegacy("send") /\ ~call.pre.legacy.open) =>
           /\ call.ret = "PortClosed"
           /\ call.io = <<>>
           /\ legacy = call.pre.legacy

\* A start() of an open port failed after the file was opened.
C29_Witness ==
    /\ IsLegacy("start")
    /\ call.pre.legacy.open
    /\ call.ret = "PortOptionsError"
    /\ ~legacy.open


\* --------------------------------------------------------------- C27
\* C27: with two threads in available_ports, no thread is ever in a
\* recv_from that began with no read timeout in force.
C27_NoUnboundedReceive ==
    \A t \in Threads : par[t].d.pc = "recv" => par[t].tmo # NoTimeout


\* --------------------------------------------------------------- C32
\* What the last write would have done on a port with the same parameters
\* and no write before it.
FirstWrite ==
    ArtnetDmxPort_write([call.pre.artnet EXCEPT !.send_buf = <<>>],
                        call.frame, call.env.sent)

\* C32: whatever was written before, and however it ended, a write sends
\* the datagram, gives the result and leaves the send buffer that the same
\* write gives on a port with the same port address and no history; the
\* buffer holds that datagram and nothing else, or nothing where the frame
\* was rejected.
C32_NoLeftover ==
    IsArtnetWrite =>
        /\ call.io = FirstWrite.io
        /\ call.ret = FirstWrite.ret
        /\ artnet = FirstWrite.p
        /\ Len(call.frame) \in 1..512 =>
               /\ Datagrams = <<artnet.send_buf>>
               /\ Len(artnet.send_buf) = 18 + Len(call.frame) + (Len(call.frame) % 2)
               /\ SubSeq(artnet.send_buf, 1, 8) = ARTNET_HEADER
        /\ Len(call.frame) \notin 1..512 =>
               /\ Datagrams = <<>>
               /\ artnet.send_buf = <<>>

\* One byte was sent after a write of 24 bytes had failed in send_to and
\* left its datagram in the buffer.
C32_Witness ==
    /\ IsArtnetWrite /\ call.ret = "Ok"
    /\ call.env.prev = [op |-> "write", ret |-> "Other"]
    /\ Len(call.pre.artnet.send_buf) = 42
    /\ Len(call.frame) = 1
    /\ Len(artnet.send_buf) = 20


\* --------------------------------------------------------------- C31
\* C31: a port built from a Poll Reply whose port-address field holds the
\* bytes (hi, lo) keeps the reply's address and the port address
\* 256 * hi + lo through every call, and every datagram it sends carries
\* lo at offset 14 and hi at offset 15, for all values of hi and lo.
C31_AddressSurvives ==
    PollBuilt =>
        LET reply == disc.replies[1].reply
            hi == reply.port_address[1]
            lo == reply.port_address[2]
        IN /\ artnet.params = [addr |-> reply.address, port_address |-> 256 * hi + lo]
           /\ artnet.params.port_address \in 0..65535
           /\ IsArtnetWrite =>
                  \A i \in 1..Len(Datagrams) :
                      /\ Datagrams[i][15] = lo
                      /\ Datagrams[i][16] = hi
           /\ (IsArtnetWrite /\ Len(call.frame) \in 1..512) => Len(Datagrams) = 1

\* The port built from the bytes (0x12, 0x34) sent a datagram with 0x34,
\* 0x12 as its destination, after an earlier write.
C31_Witness ==
    /\ PollBuilt
    /\ disc.replies[1].reply.port_address = <<18, 52>>
    /\ IsArtnetWrite /\ call.ret = "Ok"
    /\ calls = 2
    /\ artnet.params.port_address = 4660
    /\ SubSeq(Datagrams[1], 15, 16) = <<52, 18>>

============================================================================
